---------------------------- MODULE Spec2Model ----------------------------
(***************************************************************************)
(* Model of the two note producers of Music-Note-Creator:                  *)
(*   - AudioEngine.analyzeAudioSegment / autoCorrelate                     *)
(*       (src/services/audioEngine.ts), "detectNotes" in the spec;         *)
(*   - getSeededRandom / generateDeterministicNotes                        *)
(*       (src/unnamed/part_001), "SeedStream" and "compose" in the spec.   *)
(*                                                                         *)
(* Numbers.  TLC has 32-bit signed integers only, so                       *)
(*   - a 32-bit word is a pair <<hi, lo>> of 16-bit halves;                *)
(*   - a drawn value v / 2^32 is kept as the word v;                       *)
(*   - an audio sample is an integer number of 1/128 (64 = 0.5), so a      *)
(*     product of two samples is in units of 1/16384;                      *)
(*   - a time of analyzeAudioSegment is an integer number of half sample   *)
(*     periods, 1 / (2 * sampleRate) s;                                    *)
(*   - a time of generateDeterministicNotes is an integer number of        *)
(*     1 / (100 * BPM) s, so that a beat (60 / BPM s) is 6000 units and    *)
(*     one second is 100 * BPM units.                                      *)
(* Arithmetic is exact where the program uses IEEE doubles.                *)
(***************************************************************************)
EXTENDS Integers, Sequences, FiniteSets, TLC

(***************************************************************************)
(* 32-bit words                                                            *)
(***************************************************************************)
Half == 65536

\* ToUint32 of a non-negative number below 2^31
ToUint32(n) == << (n \div Half) % Half, (n % Half) >>

\* a ^ b for two 4-bit digits a - 1, b - 1
XorDigit ==
  << <<0, 1, 2, 3, 4, 5, 6, 7, 8, 9, 10, 11, 12, 13, 14, 15>>,
     <<1, 0, 3, 2, 5, 4, 7, 6, 9, 8, 11, 10, 13, 12, 15, 14>>,
     <<2, 3, 0, 1, 6, 7, 4, 5, 10, 11, 8, 9, 14, 15, 12, 13>>,
     <<3, 2, 1, 0, 7, 6, 5, 4, 11, 10, 9, 8, 15, 14, 13, 12>>,
     <<4, 5, 6, 7, 0, 1, 2, 3, 12, 13, 14, 15, 8, 9, 10, 11>>,
     <<5, 4, 7, 6, 1, 0, 3, 2, 13, 12, 15, 14, 9, 8, 11, 10>>,
     <<6, 7, 4, 5, 2, 3, 0, 1, 14, 15, 12, 13, 10, 11, 8, 9>>,
     <<7, 6, 5, 4, 3, 2, 1, 0, 15, 14, 13, 12, 11, 10, 9, 8>>,
     <<8, 9, 10, 11, 12, 13, 14, 15, 0, 1, 2, 3, 4, 5, 6, 7>>,
     <<9, 8, 11, 10, 13, 12, 15, 14, 1, 0, 3, 2, 5, 4, 7, 6>>,
     <<10, 11, 8, 9, 14, 15, 12, 13, 2, 3, 0, 1, 6, 7, 4, 5>>,
     <<11, 10, 9, 8, 15, 14, 13, 12, 3, 2, 1, 0, 7, 6, 5, 4>>,
     <<12, 13, 14, 15, 8, 9, 10, 11, 4, 5, 6, 7, 0, 1, 2, 3>>,
     <<13, 12, 15, 14, 9, 8, 11, 10, 5, 4, 7, 6, 1, 0, 3, 2>>,
     <<14, 15, 12, 13, 10, 11, 8, 9, 6, 7, 4, 5, 2, 3, 0, 1>>,
     <<15, 14, 13, 12, 11, 10, 9, 8, 7, 6, 5, 4, 3, 2, 1, 0>> >>

RECURSIVE BitXor(_, _)
\* a ^ b, digit by digit
BitXor(a, b) ==
  IF a = 0 THEN b
  ELSE IF b = 0 THEN a
  ELSE XorDigit[(a % 16) + 1][(b % 16) + 1] + 16 * BitXor(a \div 16, b \div 16)

RECURSIVE BitOr(_, _)
BitOr(a, b) ==
  IF a = 0 THEN b
  ELSE IF b = 0 THEN a
  ELSE (IF a % 2 = 1 \/ b % 2 = 1 THEN 1 ELSE 0) + 2 * BitOr(a \div 2, b \div 2)

\* 2^k, 1 <= k <= 15
Pow2(k) ==
  << 2, 4, 8, 16, 32, 64, 128, 256, 512, 1024, 2048, 4096, 8192, 16384, 32768 >>[k]

\* a ^ b
WXor(a, b) == << BitXor(a[1], b[1]), BitXor(a[2], b[2]) >>

\* a | k for a small constant k
WOr(a, k) == << a[1], BitOr(a[2], k) >>

\* a >>> k, 0 < k < 16
WShr(a, k) ==
  << a[1] \div Pow2(k), (a[1] % Pow2(k)) * Pow2(16 - k) + a[2] \div Pow2(k) >>

\* a + b with 32-bit wraparound (ToInt32 of the double sum)
WAdd(a, b) ==
  LET lo == a[2] + b[2]
      hi == a[1] + b[1] + lo \div Half
  IN  << hi % Half, lo % Half >>

\* the full product of two 16-bit halves, as a word
Mul16(x, y) ==
  LET p1 == (x \div 256) * y
      p0 == (x % 256) * y
      lo == (p1 % 256) * 256 + (p0 % Half)
      hi == p1 \div 256 + p0 \div Half + lo \div Half
  IN  << hi, lo % Half >>

\* the product without the wraparound of Math.imul
ImulNoWrap(a, b) ==
  LET p  == Mul16(a[2], b[2])
      cr == Mul16(a[1], b[2])[2] + Mul16(a[2], b[1])[2]
  IN  << p[1] + cr, p[2] >>

\* Math.imul(a, b): the low 32 bits of the product
Imul(a, b) ==
  LET p  == Mul16(a[2], b[2])
      cr == Mul16(a[1], b[2])[2] + Mul16(a[2], b[1])[2]
  IN  << (p[1] + cr) % Half, p[2] >>

\* 0x6D2B79F5
Golden == << 27947, 31221 >>

\* line 19: t = Math.imul(t ^ t >>> 15, t | 1)
Mix15(t) == Imul(WXor(t, WShr(t, 15)), WOr(t, 1))

\* line 20: t ^= t + Math.imul(t ^ t >>> 7, t | 61)
Mix7(t) == WXor(t, WAdd(t, Imul(WXor(t, WShr(t, 7)), WOr(t, 61))))

\* line 21: (t ^ t >>> 14) >>> 0
Mix14(t) == WXor(t, WShr(t, 14))

\* getSeededRandom(seed): the word v of the returned value v / 4294967296
getSeededRandom(seed) == Mix14(Mix7(Mix15(WAdd(seed, Golden))))

\* Math.floor(v * k) for a drawn value v and a small integer k
FloorMul(v, k) == (v[1] * k + (v[2] * k) \div Half) \div Half

\* v > num / 10 for a drawn value v (0.3, 0.4, 0.5, 0.6, 0.7 in the program)
GreaterTenths(v, num) ==
  LET x == 10 * v[1] + (10 * v[2]) \div Half
      r == (10 * v[2]) % Half
  IN  x > num * Half \/ (x = num * Half /\ r > 0)

\* v < num / 10
LessTenths(v, num) == (10 * v[1] + (10 * v[2]) \div Half) < num * Half

(***************************************************************************)
(* State.  One producer call runs at a time (the program is synchronous    *)
(* and single-threaded); pc is the position of the running call.  The      *)
(* locals of a call keep their source names and are reset when it returns. *)
(***************************************************************************)
VARIABLES
  pc,                \* "idle", "frames" (analyzeAudioSegment), "setup", "bars", "done"
  fn,                \* the producer called last
  audioBuffer,       \* analyzeAudioSegment: [channelData, sampleRate]
  startTime,         \* argument of both producers
  duration,          \* analyzeAudioSegment
  videoId,           \* generateDeterministicNotes: the seed string (char codes)
  endTime,           \* generateDeterministicNotes
  notes,             \* the local notes array of the running call
  segmentData, i, currentNoteStart, currentNotePitch, framesInNote,
  reading,           \* analyzeAudioSegment: what the sweep computed for the last window
  seed, BPM, SWING_FEEL, isMinor, rootNote, progression, bar, lastMelodyDegree,
  melodyBeat,        \* generateDeterministicNotes: currentBeat of the melody loop, in half beats
  ret,               \* the value the last call returned
  prev,              \* an earlier call of generateDeterministicNotes: its arguments and result
  st, val, memo,     \* SeedStream alone: the cursor, the last draw, an earlier draw
  estimate,          \* autoCorrelate alone: the last frame and what was returned for it
  tones,             \* AudioEngine: the tones playTone started, with the sources still sounding
  activeOscillators, \* AudioEngine: the oscillators tracked for stopping
  isRhythmPlaying,   \* AudioEngine: the rhythm engine runs
  called,            \* AudioEngine: the method called last
  currentPattern, currentBpm, currentBeatIndex,
                     \* AudioEngine: the rhythm; the beat index counts half beats
  nextNoteTime,      \* AudioEngine: nextNoteTime - audioContext.currentTime, in ticks of 25 ms
  rhythmTimerID,     \* AudioEngine: the id of the timer set last (0: null)
  rhythmTimers,      \* the timers of scheduleNote that are pending
  drums,             \* the drum sounds the last call of the engine played
  sourceType, ytVideoId, audioBufferRef, audioStateDuration, isPlayerReady,
  isProcessing, currentSegmentIndex, processedSegments,
                     \* App: the state and the ref the analysis reads
  appNotes,          \* App: the notes state, each note with the time units of its producer
  timers,            \* App: the deferred callbacks of analyzeSegment, oldest first
  decoding,          \* App: the file handleFileUpload is decoding
  running,           \* App: the deferred callback that is being run
  invoked,           \* App: how often a callback of this session called a producer, by segment
  merged             \* App: how many new notes the last merge of this session dropped

vars == << pc, fn, audioBuffer, startTime, duration, videoId, endTime, notes,
           segmentData, i, currentNoteStart, currentNotePitch, framesInNote, reading,
           seed, BPM, SWING_FEEL, isMinor, rootNote, progression, bar,
           lastMelodyDegree, melodyBeat, ret, prev, st, val, memo, estimate,
           tones, activeOscillators, isRhythmPlaying, called,
           currentPattern, currentBpm, currentBeatIndex, nextNoteTime, rhythmTimerID,
           rhythmTimers, drums,
           sourceType, ytVideoId, audioBufferRef, audioStateDuration, isPlayerReady,
           isProcessing, currentSegmentIndex, processedSegments,
           appNotes, timers, decoding, running, invoked, merged >>

args == << fn, audioBuffer, startTime, duration, videoId, endTime >>

analyzeLocals == << segmentData, i, currentNoteStart, currentNotePitch, framesInNote,
                    reading >>

composeLocals == << seed, BPM, SWING_FEEL, isMinor, rootNote, progression, bar,
                    lastMelodyDegree, melodyBeat >>

seedVars == << st, val, memo >>

pitchVars == << estimate >>

rhythmVars == << currentPattern, currentBpm, currentBeatIndex, nextNoteTime, rhythmTimerID,
                 rhythmTimers, drums >>

toneVars == << tones, activeOscillators, isRhythmPlaying, called, rhythmVars >>

appVars == << sourceType, ytVideoId, audioBufferRef, audioStateDuration, isPlayerReady,
              isProcessing, currentSegmentIndex, processedSegments,
              appNotes, timers, decoding, running, invoked, merged >>

NoBuffer == [channelData |-> << >>, sampleRate |-> 0]

\* no window was swept yet
NoReading == [silent |-> FALSE, T0 |-> -1, set |-> FALSE]

NoDraw == [from |-> << 0, 0 >>, value |-> << 0, 0 >>, set |-> FALSE]

NoEstimate == [buffer |-> << >>, sampleRate |-> 0, T0 |-> -1, set |-> FALSE]

NoTimer == [index |-> 0, totalDuration |-> 0, sourceType |-> "none", ytVideoId |-> << >>,
            stale |-> FALSE, set |-> FALSE]

\* currentPattern = null
NoPattern == [length |-> 0, steps |-> {}]

NoCall == [videoId |-> << >>, startTime |-> 0, endTime |-> 0, ret |-> << >>, set |-> FALSE]

\* the locals of a call that is not running
LocalsAtRest ==
  /\ notes = << >>
  /\ segmentData = << >> /\ i = 0
  /\ currentNoteStart = -1 /\ currentNotePitch = -1 /\ framesInNote = 0
  /\ reading = NoReading
  /\ seed = 0 /\ BPM = 0 /\ SWING_FEEL = FALSE /\ isMinor = FALSE
  /\ rootNote = 0 /\ progression = << >> /\ bar = 0 /\ lastMelodyDegree = 0
  /\ melodyBeat = 0

\* a return: the locals of the call die
DropLocals ==
  /\ notes' = << >>
  /\ segmentData' = << >> /\ i' = 0
  /\ currentNoteStart' = -1 /\ currentNotePitch' = -1 /\ framesInNote' = 0
  /\ reading' = NoReading
  /\ seed' = 0 /\ BPM' = 0 /\ SWING_FEEL' = FALSE /\ isMinor' = FALSE
  /\ rootNote' = 0 /\ progression' = << >> /\ bar' = 0 /\ lastMelodyDegree' = 0
  /\ melodyBeat' = 0

Init ==
  /\ pc = "idle" /\ fn = "none"
  /\ audioBuffer = NoBuffer /\ startTime = 0 /\ duration = 0
  /\ videoId = << >> /\ endTime = 0
  /\ LocalsAtRest
  /\ ret = << >> /\ prev = NoCall
  /\ st = ToUint32(0) /\ val = NoDraw /\ memo = NoDraw
  /\ estimate = NoEstimate
  /\ tones = << >> /\ activeOscillators = {} /\ isRhythmPlaying = FALSE /\ called = "none"
  /\ currentPattern = NoPattern /\ currentBpm = 120 /\ currentBeatIndex = 0
  /\ nextNoteTime = 0 /\ rhythmTimerID = 0 /\ rhythmTimers = {} /\ drums = << >>
  /\ sourceType = "youtube" /\ ytVideoId = << >> /\ audioBufferRef = NoBuffer
  /\ audioStateDuration = 0 /\ isPlayerReady = FALSE /\ isProcessing = FALSE
  /\ currentSegmentIndex = 0 /\ processedSegments = {}
  /\ appNotes = << >> /\ timers = << >> /\ decoding = NoBuffer /\ running = NoTimer
  /\ invoked = << >> /\ merged = -1

(***************************************************************************)
(* generateDeterministicNotes                                              *)
(***************************************************************************)
\* the inputs: seed strings "", "ab", "ba", "test"; whole seconds 0..MaxTime
VideoIds == { << >>, <<97, 98>>, <<98, 97>>, <<116, 101, 115, 116>> }

MaxTime == 4

Times == 0 .. MaxTime

RECURSIVE SumCodes(_)
SumCodes(s) == IF s = << >> THEN 0 ELSE Head(s) + SumCodes(Tail(s))

\* a reduce without its initial value 0 has no value for the empty string (-1 here)
InitialSeedNoFallback(v) == IF v = << >> THEN -1 ELSE SumCodes(v)

\* a cursor that goes on from where the call kept by the caller left it
InitialSeedCarried(v) == SumCodes(v) + Len(prev.ret)

\* a cursor that weighs a character code by its place in the string
InitialSeedByPlace(v) == SumCodes([k \in DOMAIN v |-> k * v[k]])

\* line 28: videoId.split('').reduce((acc, char) => acc + char.charCodeAt(0), 0)
InitialSeed(v) == SumCodes(v)

\* a draw at a position that is derived from the value drawn at the cursor
RngOfDrawn(s) == getSeededRandom(getSeededRandom(ToUint32(s)))

\* lines 29-33: the value rng() returns when the cursor is s (the caller adds 1)
Rng(s) == getSeededRandom(ToUint32(s))

\* the tempo a call with the seed string v draws (part_001 lines 28-38)
TempoOf(v) == 80 + FloorMul(Rng(InitialSeed(v)), 50)

PROGRESSIONS == << <<0, 4, 5, 3>>, <<1, 4, 0, 5>>, <<0, 5, 3, 4>>, <<5, 3, 0, 4>> >>

ScaleIntervals(minor) ==
  IF minor THEN <<0, 2, 3, 5, 7, 8, 10>> ELSE <<0, 2, 4, 5, 7, 9, 11>>

\* a pitch that stays in the octave of the root whatever the offset asked for
getMidiPitchNoOffset(degree, octaveOffset) ==
  rootNote + ((degree \div 7) * 12) + ScaleIntervals(isMinor)[(degree % 7) + 1]

\* lines 49-55, for the scale and root the call drew
getMidiPitch(degree, octaveOffset) ==
  LET scaleIntervals == ScaleIntervals(isMinor)
      len == Len(scaleIntervals)
      oct == degree \div len
      idx == degree % len
  IN  rootNote + (octaveOffset * 12) + (oct * 12) + scaleIntervals[idx + 1]

\* time units per second, beat and bar (1 unit = 1 / (100 * BPM) s)
Second == 100 * BPM
BEAT_DURATION == 6000
BAR_DURATION == BEAT_DURATION * 4

\* lines 69-70
StartBar == (startTime * Second) \div BAR_DURATION
EndBar == -((-(endTime * Second)) \div BAR_DURATION)

InWindow(time) == time >= startTime * Second /\ time < endTime * Second

Velocity(hundredths, intensity) == << hundredths, intensity >>

Note(id, start, dur, pitch, vel, conf) ==
  [id |-> id, start_time |-> start, duration |-> dur, midi_pitch |-> pitch,
   velocity |-> vel, confidence |-> conf]

\* a bass that plays only in bars that start inside the window
BassDueInWindow(barStart) == InWindow(barStart)

\* lines 82-83: bassTime = Math.max(startTime, barStart); if (bassTime < endTime)
BassDue(barStart) ==
  (IF startTime * Second > barStart THEN startTime * Second ELSE barStart) < endTime * Second

\* lines 80-109; c = [seed, notes, last]: the cursor, the notes pushed, lastMelodyDegree
BassLayer(c) ==
  LET barStart == bar * BAR_DURATION
      chordDegree == progression[(bar % 4) + 1]
      root == Note(<<"bass", bar, 1>>, barStart, (BEAT_DURATION * 12) \div 10,
                   getMidiPitch(chordDegree, -2), Velocity(85, ToUint32(0)), 98)
      beat3 == barStart + (BEAT_DURATION * 2)
      interval == IF GreaterTenths(Rng(c.seed + 1), 5) THEN 4 ELSE 0
      fifth == Note(<<"bass", bar, 3>>, beat3, BEAT_DURATION,
                    getMidiPitch(chordDegree + interval, -2), Velocity(75, ToUint32(0)), 90)
  IN  IF ~BassDue(barStart) THEN c
      ELSE IF ~GreaterTenths(Rng(c.seed), 4)
           THEN [c EXCEPT !.seed = @ + 1, !.notes = Append(@, root)]
      ELSE IF ~InWindow(beat3)
           THEN [c EXCEPT !.seed = @ + 1, !.notes = Append(@, root)]
      ELSE [c EXCEPT !.seed = @ + 2, !.notes = Append(Append(@, root), fifth)]

RECURSIVE ChordTones(_, _, _)
\* lines 117-131: the forEach over chordTones = [0, 2, 4], from index idx on
ChordTones(idx, intensity, ns) ==
  IF idx > 2 THEN ns
  ELSE LET chordDegree == progression[(bar % 4) + 1]
           interval == 2 * idx
           strumDelay == idx * 3 * BPM
           time == bar * BAR_DURATION + BEAT_DURATION + strumDelay
           n == Note(<<"harm", bar, idx>>, time, BEAT_DURATION * 2,
                     getMidiPitch(chordDegree + interval, -1),
                     Velocity(40, intensity), 85)
       IN  ChordTones(idx + 1, intensity, IF InWindow(time) THEN Append(ns, n) ELSE ns)

\* lines 111-132
HarmonyLayer(c) ==
  CHOOSE r \in { [c EXCEPT !.seed = @ + 1,
                           !.notes = IF GreaterTenths(intensity, 3)
                                     THEN ChordTones(0, intensity, @) ELSE @] :
                 intensity \in { Rng(c.seed) } } : TRUE

\* a clamp that does not shift the degree
OctaveKept(degree) == degree

\* line 180
OctaveDown(degree) == IF getMidiPitch(degree, 0) > 84 THEN degree - 7 ELSE degree

\* line 181
OctaveUp(degree) == IF getMidiPitch(degree, 0) < 60 THEN degree + 7 ELSE degree

\* lines 166-170: on a strong beat the walk is pulled one step towards the chord tone
Pull(currentBeat, walked, chordTone) ==
  IF currentBeat % 4 # 0 THEN walked
  ELSE IF walked < chordTone THEN walked + 1
  ELSE IF walked > chordTone THEN walked - 1
  ELSE walked

\* a last note that is left where the walk took it
PhraseFree(currentBeat, dur, degree) == degree

\* lines 174-177: the last note of a bar ends the phrase
Phrase(currentBeat, dur, degree) ==
  IF currentBeat >= 6 /\ dur >= 2
  THEN progression[(bar % 4) + 1] + (IF bar % 2 = 0 THEN 4 ELSE 0)
  ELSE degree

\* lines 143-210: one iteration of the while loop at currentBeat, where roll
\* holds the next five values of the stream; the result is the next
\* currentBeat and c.  currentBeat and the slot duration are counted in half
\* beats (1 = 0.5 beat)
MelodySlot(currentBeat, c, roll) ==
  LET dur == IF GreaterTenths(roll[1], 7) THEN 4
             ELSE IF LessTenths(roll[1], 3) THEN 1 ELSE 2
      noteTime == bar * BAR_DURATION + currentBeat * (BEAT_DURATION \div 2)
      shouldPlay == currentBeat = 0 \/ GreaterTenths(roll[2], 3)
      drawn == IF currentBeat = 0 THEN 1 ELSE 2
      chordTone == progression[(bar % 4) + 1]
                     + (IF GreaterTenths(roll[drawn + 1], 5) THEN 0 ELSE 2)
      step == IF GreaterTenths(roll[drawn + 2], 5) THEN 1 ELSE -1
      candidateDegree ==
        OctaveUp(OctaveDown(Phrase(currentBeat, dur,
                                   Pull(currentBeat, c.last + step, chordTone))))
      id == << "mel", bar, currentBeat, FloorMul(roll[drawn + 3], 100) >>
  IN  << currentBeat + dur,
         IF shouldPlay /\ InWindow(noteTime)
         THEN CHOOSE r \in
                { [seed |-> c.seed + drawn + 3,
                   notes |-> Append(c.notes,
                               Note(id, noteTime, (dur * (BEAT_DURATION \div 2) * 9) \div 10,
                                    getMidiPitch(d, 0),
                                    Velocity(IF currentBeat % 4 = 0 THEN 90 ELSE 70,
                                             ToUint32(0)), 95)),
                   last |-> d] : d \in { candidateDegree } } : TRUE
         ELSE [c EXCEPT !.seed = @ + drawn] >>

RECURSIVE MelodyLayer(_, _)
\* lines 134-212: the while loop from currentBeat on
MelodyLayer(currentBeat, c) ==
  IF ~(currentBeat < 8) THEN c
  ELSE CHOOSE r \in
         { MelodyLayer(x[1], x[2]) :
             x \in { MelodySlot(currentBeat, c,
                                [k \in 1 .. 5 |-> Rng(c.seed + k - 1)]) } } : TRUE

\* the notes in the order they were pushed
PushOrder(ns) == ns

\* line 215: notes.sort((a, b) => a.start_time - b.start_time), a stable sort:
\* a note goes after the notes that start earlier and after the notes pushed
\* before it that start at the same time
SortByStartTime(ns) ==
  LET rank(k) == Cardinality({j \in 1 .. Len(ns) :
                     \/ ns[j].start_time < ns[k].start_time
                     \/ ns[j].start_time = ns[k].start_time /\ j < k}) + 1
  IN  [p \in 1 .. Len(ns) |-> ns[CHOOSE k \in 1 .. Len(ns) : rank(k) = p]]

\* lines 24-28: the call; the cursor is derived from the seed string
ComposeCall(v, s, e) ==
  /\ pc = "idle"
  /\ pc' = "setup"
  /\ fn' = "generateDeterministicNotes"
  /\ videoId' = v /\ startTime' = s /\ endTime' = e
  /\ notes' = << >>
  /\ seed' = InitialSeed(v)
  /\ UNCHANGED << audioBuffer, duration, analyzeLocals, BPM, SWING_FEEL, isMinor,
                  rootNote, progression, bar, lastMelodyDegree, melodyBeat, ret, prev,
                  seedVars, pitchVars, toneVars >>

\* lines 35-73: the five setup draws
ComposeSetup ==
  /\ pc = "setup"
  /\ BPM' = 80 + FloorMul(Rng(seed), 50)
  /\ SWING_FEEL' = GreaterTenths(Rng(seed + 1), 6)
  /\ isMinor' = GreaterTenths(Rng(seed + 2), 5)
  /\ rootNote' = 58 + FloorMul(Rng(seed + 3), 12)
  /\ progression' = PROGRESSIONS[FloorMul(Rng(seed + 4), Len(PROGRESSIONS)) + 1]
  /\ seed' = seed + 5
  /\ bar' = (startTime * 100 * BPM') \div BAR_DURATION
  /\ lastMelodyDegree' = 0
  /\ melodyBeat' = 0
  /\ pc' = "bars"
  /\ UNCHANGED << args, notes, analyzeLocals, ret, prev, seedVars, pitchVars, toneVars, appVars >>

\* lines 75-213: one iteration of the loop over the bars
ComposeBar ==
  /\ pc = "bars"
  /\ bar < EndBar
  /\ \E a \in { BassLayer([seed |-> seed, notes |-> notes, last |-> lastMelodyDegree]) } :
     \E b \in { HarmonyLayer(a) } :
     \E c \in { MelodyLayer(0, b) } :
        /\ seed' = c.seed
        /\ notes' = c.notes
        /\ lastMelodyDegree' = c.last
  /\ bar' = bar + 1
  /\ UNCHANGED << pc, args, analyzeLocals, BPM, SWING_FEEL, isMinor, rootNote,
                  progression, melodyBeat, ret, prev, seedVars, pitchVars, toneVars, appVars >>

\* line 215: the sorted notes are returned and the locals die
ComposeReturn ==
  /\ pc = "bars"
  /\ ~(bar < EndBar)
  /\ ret' = SortByStartTime(notes)
  /\ pc' = "done"
  /\ DropLocals
  /\ UNCHANGED << args, prev, seedVars, pitchVars, toneVars, appVars >>

Compose ==
  \/ \E v \in VideoIds, s \in Times, e \in Times : ComposeCall(v, s, e) /\ UNCHANGED appVars
  \/ ComposeSetup
  \/ ComposeBar
  \/ ComposeReturn

(***************************************************************************)
(* AudioEngine.analyzeAudioSegment and autoCorrelate                       *)
(*                                                                         *)
(* A sample is an integer number of 1/128 (64 = 0.5), which a Float32Array *)
(* holds exactly, so sums and products are exact here as in the program;   *)
(* a product of two samples is in units of 1/16384.  The window and the    *)
(* hop are scaled down from 2048 and 1024 samples: the code is the same    *)
(* for every window length, and an autocorrelation over 2048 samples is    *)
(* out of reach of an explicit-state check.                                *)
(***************************************************************************)
windowSize == 4

hopSize == 2

\* Infinity: sampleRate / 0 of autoCorrelate, and Math.round of it
Infinity == 1000000

Abs(x) == IF x < 0 THEN -x ELSE x

Max(a, b) == IF a > b THEN a ELSE b

Min(a, b) == IF a < b THEN a ELSE b

\* TypedArray.prototype.slice(begin, end): a negative index counts from the end
Slice(s, begin, end) ==
  LET len == Len(s)
      k == IF begin < 0 THEN Max(len + begin, 0) ELSE Min(begin, len)
      final == IF end < 0 THEN Max(len + end, 0) ELSE Min(end, len)
  IN  SubSeq(s, k + 1, final)

RECURSIVE SumSqRange(_, _, _)
\* the sum of s[k] * s[k] for lo <= k <= hi, by halves
SumSqRange(s, lo, hi) ==
  IF lo > hi THEN 0
  ELSE IF lo = hi THEN s[lo] * s[lo]
  ELSE SumSqRange(s, lo, (lo + hi) \div 2) + SumSqRange(s, ((lo + hi) \div 2) + 1, hi)

\* lines 205-206 and 280-283: the sum of the squares
SumSq(s) == SumSqRange(s, 1, Len(s))

\* Math.sqrt(sumSq / length) < hundredths / 100, that is
\* SumSq(chunk) * 625 < hundredths^2 * 1024 * Len(chunk) in units of 1/16384
RmsBelow(chunk, hundredths) ==
  SumSq(chunk) <= (hundredths * hundredths * 1024 * Len(chunk) - 1) \div 625

\* Math.abs(x) < thres, thres = 0.2
BelowThres(x) == 5 * Abs(x) < 128

\* lines 289-294: the first i >= from with 2 * i < SIZE and |buffer[at(i)]| < thres,
\* or -1; at(i) is i forwards and SIZE - i backwards
FirstQuiet(buffer, from, backwards) ==
  LET SIZE == Len(buffer)
      quiet(k) == /\ 2 * k < SIZE
                  /\ BelowThres(IF backwards THEN buffer[SIZE - k + 1] ELSE buffer[k + 1])
  IN  IF \E k \in from .. SIZE : quiet(k)
      THEN CHOOSE k \in from .. SIZE : quiet(k) /\ \A e \in from .. k - 1 : ~quiet(e)
      ELSE -1

RECURSIVE Products(_, _, _, _)
\* lines 299-301: the sum over lo <= j <= hi of buffer2[j] * buffer2[j + lag]
\* (indices from 0), by halves
Products(buffer2, lag, lo, hi) ==
  IF lo > hi THEN 0
  ELSE IF lo = hi THEN buffer2[lo + 1] * buffer2[lo + lag + 1]
  ELSE Products(buffer2, lag, lo, (lo + hi) \div 2)
         + Products(buffer2, lag, ((lo + hi) \div 2) + 1, hi)

RECURSIVE CorrelationRange(_, _, _)
\* c[lo], ..., c[hi] as a sequence
CorrelationRange(buffer2, lo, hi) ==
  IF lo > hi THEN << >>
  ELSE IF lo = hi THEN << Products(buffer2, lo, 0, Len(buffer2) - lo - 1) >>
  ELSE CorrelationRange(buffer2, lo, (lo + hi) \div 2)
         \o CorrelationRange(buffer2, ((lo + hi) \div 2) + 1, hi)

\* lines 297-302: the array c; c[lag] of the program is Correlation(buffer2)[lag + 1]
Correlation(buffer2) == CorrelationRange(buffer2, 0, Len(buffer2) - 1)

\* a search that does not skip the peak at lag 0
NoSkip(c, d0) == d0

\* line 304: let d = 0; while (c[d] > c[d + 1]) d++; (a missing entry compares
\* false): the first d from d0 on at which c does not fall
FirstRise(c, d0) ==
  LET falls(d) == d + 2 <= Len(c) /\ c[d + 1] > c[d + 2]
  IN  CHOOSE d \in d0 .. Len(c) : ~falls(d) /\ \A e \in d0 .. d - 1 : falls(e)

\* lines 305-308: the position of the first maximum above maxval from lag d on,
\* or maxpos when no entry is above maxval
MaxFrom(c, d, maxval, maxpos) ==
  LET first(k) == /\ c[k + 1] > maxval
                  /\ \A e \in d .. Len(c) - 1 : c[e + 1] <= c[k + 1]
                  /\ \A e \in d .. k - 1 : c[e + 1] < c[k + 1]
  IN  IF \E k \in d .. Len(c) - 1 : c[k + 1] > maxval
      THEN CHOOSE k \in d .. Len(c) - 1 : first(k)
      ELSE maxpos

\* lines 304-311 on the array c: the lag T0
PickLag(c) == MaxFrom(c, FirstRise(c, 0), -16384, -1)

\* lines 277-314; the result is the lag T0 of the returned sampleRate / T0
\* (0: Infinity), or -1 for the returned -1
autoCorrelate(buffer) ==
  LET SIZE == Len(buffer)
      q1 == FirstQuiet(buffer, 0, FALSE)
      q2 == FirstQuiet(buffer, 1, TRUE)
      r1 == IF q1 = -1 THEN 0 ELSE q1
      r2 == IF q2 = -1 THEN SIZE - 1 ELSE SIZE - q2
  IN  IF RmsBelow(buffer, 1) THEN -1
      ELSE CHOOSE T0 \in { PickLag(c) : c \in { Correlation(Slice(buffer, r1, r2)) } } : TRUE

\* the rounding bounds 2^((j - 0.5) / 12), j = 1..12, times 10000
SemitoneBounds ==
  << 10293, 10905, 11554, 12241, 12968, 13740, 14557, 15422, 16339, 17311, 18340, 19431 >>

RECURSIVE RoundLog(_, _)
\* Math.round(12 * Math.log2(num / den))
RoundLog(num, den) ==
  IF num >= 2 * den THEN 12 + RoundLog(num, 2 * den)
  ELSE IF num < den THEN RoundLog(2 * num, den) - 12
  ELSE Cardinality({j \in 1 .. 12 : num * 10000 >= SemitoneBounds[j] * den})

\* line 230: Math.round(69 + 12 * Math.log2(frequency / 440)), frequency = sampleRate / T0
MidiOfLag(sampleRate, T0) ==
  IF T0 = 0 THEN Infinity ELSE 69 + RoundLog(sampleRate, 440 * T0)

\* a note that ends as soon as the pitch is not the held one
PitchChangedAtAll(midiPitch, current) == midiPitch # current

\* line 237: Math.abs(midiPitch - currentNotePitch) > 1 (Infinity - Infinity is NaN)
PitchChanged(midiPitch, current) ==
  IF midiPitch = Infinity /\ current = Infinity THEN FALSE
  ELSE IF midiPitch = Infinity \/ current = Infinity THEN TRUE
  ELSE Abs(midiPitch - current) > 1

\* rms < 0.01, the threshold of autoCorrelate, taken for rmsThreshold
IsSilenceAtOneHundredth(chunk) == RmsBelow(chunk, 1)

\* rms < rmsThreshold, rmsThreshold = 0.02
IsSilence(chunk) == RmsBelow(chunk, 2)

\* a pushed raw note; start and duration in half sample periods
RawNote(from, to, confidence) ==
  [start |-> startTime + 2 * from, duration |-> 2 * (to - from),
   pitch |-> currentNotePitch, confidence |-> confidence]

\* the map to NoteEvent with an id of the millisecond alone
ToNoteEventByTime(n, idx) ==
  Note(<<"evt_real", (n.start * 500) \div audioBuffer.sampleRate, 0>>,
       n.start,
       Max(audioBuffer.sampleRate \div 5, n.duration),
       n.pitch, Velocity(70, ToUint32(0)), n.confidence)

\* the map to NoteEvent without the minimum duration
ToNoteEventUnclamped(n, idx) ==
  Note(<<"evt_real", (n.start * 500) \div audioBuffer.sampleRate, idx>>,
       n.start, n.duration, n.pitch, Velocity(70, ToUint32(0)), n.confidence)

\* lines 267-274: the map to NoteEvent
ToNoteEvent(n, idx) ==
  Note(<<"evt_real", (n.start * 500) \div audioBuffer.sampleRate, idx>>,
       n.start,
       Max(audioBuffer.sampleRate \div 5, n.duration),
       n.pitch, Velocity(70, ToUint32(0)), n.confidence)

\* the inputs: the empty buffer and buffers of one or two runs of a periodic pattern
Patterns ==
  { <<0>>, <<2, -2>>, <<64, -64>>, <<64, 16>>, <<128, 0, 0, 0>>,
    <<128, 128, -128, -128>> }

ShortRun == 2

LongRun == 7

Run(p, hops) == [k \in 1 .. hops * hopSize |-> p[((k - 1) % Len(p)) + 1]]

Runs == { Run(p, h) : p \in Patterns, h \in {ShortRun, LongRun} }

ChannelData == { << >> } \cup Runs \cup { a \o b : a \in Runs, b \in Runs }

SampleRates == {8000, 44100}

\* startTime and duration, in half sample periods
StartTimes == {0, 3}

Durations == {-6, 0, 4 * LongRun * hopSize}

\* lines 181-199
AnalyzeCall(buf, s, d) ==
  /\ pc = "idle"
  /\ pc' = "frames"
  /\ fn' = "analyzeAudioSegment"
  /\ audioBuffer' = buf /\ startTime' = s /\ duration' = d
  /\ LET startSample == s \div 2
         endSample == (s + d) \div 2
     IN  segmentData' = Slice(buf.channelData, Max(0, startSample),
                              Min(Len(buf.channelData), endSample))
  /\ notes' = << >>
  /\ i' = 0
  /\ currentNoteStart' = -1 /\ currentNotePitch' = -1 /\ framesInNote' = 0
  /\ reading' = NoReading
  /\ UNCHANGED << videoId, endTime, composeLocals, ret, prev, seedVars, pitchVars, toneVars >>

\* a note that is kept whatever the number of its frames
StableAtOnce(frames) == frames > 0

\* lines 212, 240 and 259: framesInNote > 4
Stable(frames) == frames > 4

\* a gap that ends the open note
GapEndsNote ==
  /\ currentNoteStart' = -1
  /\ framesInNote' = 0
  /\ UNCHANGED << notes, currentNotePitch >>

\* line 229: frequency > 0 is false and nothing is done
Gap == UNCHANGED << notes, currentNoteStart, currentNotePitch, framesInNote >>

\* lines 209-254: what the sweep does with a window, given rms < rmsThreshold
\* and, for a window that is not silent, the lag autoCorrelate chose
FrameStep(silent, T0) ==
  IF silent
  THEN IF currentNoteStart # -1
       THEN /\ notes' = IF Stable(framesInNote)
                        THEN Append(notes, RawNote(currentNoteStart, i, 80))
                        ELSE notes
            /\ currentNoteStart' = -1
            /\ framesInNote' = 0
            /\ UNCHANGED currentNotePitch
       ELSE UNCHANGED << notes, currentNoteStart, currentNotePitch, framesInNote >>
  ELSE IF T0 = -1
       THEN Gap
  ELSE IF currentNoteStart = -1
       THEN /\ currentNoteStart' = i
            /\ currentNotePitch' = MidiOfLag(audioBuffer.sampleRate, T0)
            /\ framesInNote' = 1
            /\ UNCHANGED notes
  ELSE IF PitchChanged(MidiOfLag(audioBuffer.sampleRate, T0), currentNotePitch)
       THEN /\ notes' = IF Stable(framesInNote)
                        THEN Append(notes, RawNote(currentNoteStart, i, 85))
                        ELSE notes
            /\ currentNoteStart' = i
            /\ currentNotePitch' = MidiOfLag(audioBuffer.sampleRate, T0)
            /\ framesInNote' = 1
       ELSE /\ framesInNote' = framesInNote + 1
            /\ UNCHANGED << notes, currentNoteStart, currentNotePitch >>

\* lines 205-207 and 227: the reading of a window
Read(chunk) ==
  IF IsSilence(chunk) THEN [silent |-> TRUE, T0 |-> -1, set |-> TRUE]
  ELSE [silent |-> FALSE, T0 |-> autoCorrelate(chunk), set |-> TRUE]

\* lines 201-255: one iteration of the loop over the windows
AnalyzeFrame ==
  /\ pc = "frames"
  /\ i < Len(segmentData) - windowSize
  /\ \E r \in { Read(Slice(segmentData, i, i + windowSize)) } :
        /\ reading' = r
        /\ FrameStep(r.silent, r.T0)
  /\ i' = i + hopSize
  /\ UNCHANGED << pc, args, segmentData, composeLocals, ret, prev, seedVars, pitchVars, toneVars, appVars >>

\* lines 257-275: the final note is closed, the notes are mapped and returned
AnalyzeReturn ==
  /\ pc = "frames"
  /\ ~(i < Len(segmentData) - windowSize)
  /\ LET all == IF currentNoteStart # -1 /\ Stable(framesInNote)
                THEN Append(notes, RawNote(currentNoteStart, Len(segmentData), 85))
                ELSE notes
     IN  ret' = [idx \in 1 .. Len(all) |-> ToNoteEvent(all[idx], idx - 1)]
  /\ pc' = "done"
  /\ DropLocals
  /\ UNCHANGED << args, prev, seedVars, pitchVars, toneVars, appVars >>

Analyze ==
  \/ \E data \in ChannelData, rate \in SampleRates, s \in StartTimes, d \in Durations :
        AnalyzeCall([channelData |-> data, sampleRate |-> rate], s, d) /\ UNCHANGED appVars
  \/ AnalyzeFrame
  \/ AnalyzeReturn

\* the caller has the returned notes (part_001 lines 363-367); the call is over
CallerTakes ==
  /\ pc = "done"
  /\ pc' = "idle"
  /\ fn' = "none"
  /\ audioBuffer' = NoBuffer /\ startTime' = 0 /\ duration' = 0
  /\ videoId' = << >> /\ endTime' = 0
  /\ ret' = << >>
  /\ UNCHANGED << notes, analyzeLocals, composeLocals, prev, seedVars, pitchVars, toneVars, appVars >>

\* as CallerTakes, and the caller keeps this call's arguments and result
CallerKeeps ==
  /\ pc = "done"
  /\ fn = "generateDeterministicNotes"
  /\ prev' = [videoId |-> videoId, startTime |-> startTime, endTime |-> endTime,
              ret |-> ret, set |-> TRUE]
  /\ pc' = "idle"
  /\ fn' = "none"
  /\ audioBuffer' = NoBuffer /\ startTime' = 0 /\ duration' = 0
  /\ videoId' = << >> /\ endTime' = 0
  /\ ret' = << >>
  /\ UNCHANGED << notes, analyzeLocals, composeLocals, seedVars, pitchVars, toneVars, appVars >>

Next == Analyze \/ Compose \/ CallerTakes

Spec == Init /\ [][Next]_vars

\* generateDeterministicNotes called again and again, one earlier call kept
NextCompose == Compose \/ CallerTakes \/ CallerKeeps

SpecCompose == Init /\ [][NextCompose]_vars

(***************************************************************************)
(* SeedStream alone: getSeededRandom drawn from cursors near 0, 2^31, 2^32 *)
(***************************************************************************)
SeedStarts == { << 0, 0 >>, << 32767, 65520 >>, << 65535, 65520 >> }

MaxDraws == 40

\* the cursor is (re)derived
Reseed(s) ==
  /\ st' = s
  /\ UNCHANGED << val, memo >>
  /\ UNCHANGED << pc, args, notes, analyzeLocals, composeLocals, ret, prev, pitchVars, toneVars, appVars >>

\* lines 29-33: one rng() call: a draw, then the cursor moves on by one
Draw ==
  /\ \E s \in SeedStarts : \E k \in 0 .. MaxDraws - 1 : st = WAdd(s, ToUint32(k))
  /\ val' = [from |-> st, value |-> getSeededRandom(st), set |-> TRUE]
  /\ st' = WAdd(st, ToUint32(1))
  /\ UNCHANGED memo
  /\ UNCHANGED << pc, args, notes, analyzeLocals, composeLocals, ret, prev, pitchVars, toneVars, appVars >>

\* an observer takes the last draw
Keep ==
  /\ val.set
  /\ memo' = val
  /\ val' = NoDraw
  /\ UNCHANGED st
  /\ UNCHANGED << pc, args, notes, analyzeLocals, composeLocals, ret, prev, pitchVars, toneVars, appVars >>

NextSeed == (\E s \in SeedStarts : Reseed(s)) \/ Draw \/ Keep

SpecSeed == Init /\ [][NextSeed]_vars

(***************************************************************************)
(* autoCorrelate alone, on every frame of one window over a few sample     *)
(* values: 0, 1/128 (below the RMS of 0.01), 25/128 and 26/128 (either     *)
(* side of thres = 0.2), 1, -0.5 and -1                                    *)
(***************************************************************************)
Samples == { -128, -64, 0, 1, 25, 26, 128 }

Frames == [1 .. windowSize -> Samples]

\* line 227: this.autoCorrelate(chunk, sampleRate)
Estimate(frame, rate) ==
  /\ ~estimate.set
  /\ estimate' = [buffer |-> frame, sampleRate |-> rate, T0 |-> autoCorrelate(frame),
                  set |-> TRUE]
  /\ UNCHANGED << pc, args, notes, analyzeLocals, composeLocals, ret, prev, seedVars, toneVars, appVars >>

\* the caller has the returned value; the call is over
EstimateTaken ==
  /\ estimate.set
  /\ estimate' = NoEstimate
  /\ UNCHANGED << pc, args, notes, analyzeLocals, composeLocals, ret, prev, seedVars, toneVars, appVars >>

\* the window of the program: windowSize = 2048 samples
FrameLength == 2048

\* the frame of a sine of 440 Hz sampled at 44100 Hz: sample n is
\* sin(2 * pi * 440 * n / 44100), rounded to the next 1/128
Sine440 ==
  << 0, 8, 16, 24, 32, 39, 47, 54, 62, 68, 75, 81, 87, 93, 98, 103,
     108, 112, 116, 119, 122, 124, 126, 127, 128, 128, 128, 127, 126, 124, 122, 119,
     116, 112, 108, 104, 99, 94, 88, 82, 76, 69, 62, 55, 48, 40, 33, 25,
     17, 9, 1, -7, -15, -23, -31, -39, -46, -54, -61, -68, -74, -81, -87, -93,
     -98, -103, -107, -112, -115, -119, -121, -124, -125, -127, -128, -128, -128, -127, -126, -124,
     -122, -120, -116, -113, -109, -104, -100, -94, -89, -83, -77, -70, -63, -56, -49, -41,
     -34, -26, -18, -10, -2, 6, 14, 22, 30, 38, 45, 53, 60, 67, 74, 80,
     86, 92, 97, 102, 107, 111, 115, 118, 121, 123, 125, 127, 128, 128, 128, 127,
     126, 125, 122, 120, 117, 113, 109, 105, 100, 95, 89, 84, 77, 71, 64, 57,
     50, 42, 34, 27, 19, 11, 3, -5, -13, -21, -29, -37, -44, -52, -59, -66,
     -73, -79, -85, -91, -97, -102, -106, -111, -114, -118, -121, -123, -125, -127, -128, -128,
     -128, -127, -126, -125, -123, -120, -117, -114, -110, -106, -101, -96, -90, -84, -78, -72,
     -65, -58, -50, -43, -35, -28, -20, -12, -4, 4, 12, 20, 28, 36, 44, 51,
     58, 65, 72, 79, 85, 91, 96, 101, 106, 110, 114, 117, 120, 123, 125, 126,
     127, 128, 128, 127, 126, 125, 123, 120, 118, 114, 110, 106, 101, 96, 91, 85,
     79, 72, 65, 58, 51, 44, 36, 28, 21, 13, 5, -3, -11, -19, -27, -35,
     -43, -50, -58, -65, -71, -78, -84, -90, -95, -101, -105, -110, -114, -117, -120, -123,
     -125, -126, -127, -128, -128, -128, -127, -125, -123, -121, -118, -115, -111, -107, -102, -97,
     -91, -86, -79, -73, -66, -59, -52, -45, -37, -29, -21, -13, -5, 3, 11, 19,
     26, 34, 42, 49, 57, 64, 71, 77, 83, 89, 95, 100, 105, 109, 113, 117,
     120, 122, 125, 126, 127, 128, 128, 128, 127, 125, 123, 121, 118, 115, 111, 107,
     102, 97, 92, 86, 80, 74, 67, 60, 53, 45, 38, 30, 22, 14, 6, -2,
     -10, -18, -26, -33, -41, -49, -56, -63, -70, -76, -83, -89, -94, -100, -104, -109,
     -113, -116, -119, -122, -124, -126, -127, -128, -128, -128, -127, -126, -124, -121, -119, -115,
     -112, -108, -103, -98, -93, -87, -81, -74, -68, -61, -54, -46, -39, -31, -23, -15,
     -7, 1, 9, 17, 25, 32, 40, 48, 55, 62, 69, 76, 82, 88, 94, 99,
     104, 108, 112, 116, 119, 122, 124, 126, 127, 128, 128, 128, 127, 126, 124, 122,
     119, 116, 112, 108, 104, 99, 93, 88, 82, 75, 69, 62, 55, 47, 40, 32,
     24, 16, 8, 0, -8, -16, -24, -32, -39, -47, -54, -61, -68, -75, -81, -87,
     -93, -98, -103, -108, -112, -116, -119, -122, -124, -126, -127, -128, -128, -128, -127, -126,
     -124, -122, -119, -116, -113, -109, -104, -99, -94, -88, -82, -76, -69, -62, -55, -48,
     -41, -33, -25, -17, -9, -1, 7, 15, 23, 31, 38, 46, 53, 61, 68, 74,
     81, 87, 92, 98, 103, 107, 111, 115, 118, 121, 124, 125, 127, 128, 128, 128,
     127, 126, 124, 122, 120, 117, 113, 109, 105, 100, 95, 89, 83, 77, 70, 63,
     56, 49, 41, 34, 26, 18, 10, 2, -6, -14, -22, -30, -38, -45, -53, -60,
     -67, -73, -80, -86, -92, -97, -102, -107, -111, -115, -118, -121, -123, -125, -127, -128,
     -128, -128, -127, -126, -125, -122, -120, -117, -113, -109, -105, -100, -95, -90, -84, -77,
     -71, -64, -57, -50, -42, -35, -27, -19, -11, -3, 5, 13, 21, 29, 37, 44,
     52, 59, 66, 73, 79, 85, 91, 97, 102, 106, 111, 114, 118, 121, 123, 125,
     127, 127, 128, 128, 127, 126, 125, 123, 120, 117, 114, 110, 106, 101, 96, 90,
     84, 78, 72, 65, 58, 51, 43, 35, 28, 20, 12, 4, -4, -12, -20, -28,
     -36, -43, -51, -58, -65, -72, -78, -85, -90, -96, -101, -106, -110, -114, -117, -120,
     -123, -125, -126, -127, -128, -128, -127, -126, -125, -123, -121, -118, -114, -110, -106, -101,
     -96, -91, -85, -79, -72, -66, -59, -51, -44, -36, -29, -21, -13, -5, 3, 11,
     19, 27, 35, 43, 50, 57, 64, 71, 78, 84, 90, 95, 101, 105, 110, 114,
     117, 120, 123, 125, 126, 127, 128, 128, 128, 127, 125, 123, 121, 118, 115, 111,
     107, 102, 97, 92, 86, 80, 73, 66, 59, 52, 45, 37, 29, 22, 14, 6,
     -2, -10, -18, -26, -34, -42, -49, -57, -64, -70, -77, -83, -89, -95, -100, -105,
     -109, -113, -117, -120, -122, -124, -126, -127, -128, -128, -128, -127, -125, -124, -121, -118,
     -115, -111, -107, -103, -98, -92, -86, -80, -74, -67, -60, -53, -46, -38, -30, -22,
     -15, -7, 1, 9, 17, 25, 33, 41, 48, 56, 63, 70, 76, 83, 89, 94,
     99, 104, 109, 113, 116, 119, 122, 124, 126, 127, 128, 128, 128, 127, 126, 124,
     121, 119, 115, 112, 108, 103, 98, 93, 87, 81, 75, 68, 61, 54, 47, 39,
     31, 23, 15, 7, -1, -9, -17, -24, -32, -40, -48, -55, -62, -69, -76, -82,
     -88, -94, -99, -104, -108, -112, -116, -119, -122, -124, -126, -127, -128, -128, -128, -127,
     -126, -124, -122, -119, -116, -112, -108, -104, -99, -93, -88, -82, -75, -69, -62, -55,
     -47, -40, -32, -24, -16, -8, 0, 8, 16, 24, 31, 39, 47, 54, 61, 68,
     75, 81, 87, 93, 98, 103, 108, 112, 116, 119, 122, 124, 126, 127, 128, 128,
     128, 127, 126, 124, 122, 119, 116, 113, 109, 104, 99, 94, 88, 82, 76, 70,
     63, 56, 48, 41, 33, 25, 17, 9, 1, -7, -15, -23, -31, -38, -46, -53,
     -60, -67, -74, -80, -87, -92, -98, -103, -107, -111, -115, -118, -121, -124, -125, -127,
     -128, -128, -128, -127, -126, -124, -122, -120, -117, -113, -109, -105, -100, -95, -89, -83,
     -77, -70, -63, -56, -49, -42, -34, -26, -18, -10, -2, 6, 14, 22, 30, 37,
     45, 52, 60, 67, 73, 80, 86, 92, 97, 102, 107, 111, 115, 118, 121, 123,
     125, 127, 128, 128, 128, 127, 126, 125, 123, 120, 117, 113, 110, 105, 100, 95,
     90, 84, 78, 71, 64, 57, 50, 42, 35, 27, 19, 11, 3, -5, -13, -21,
     -29, -37, -44, -52, -59, -66, -73, -79, -85, -91, -96, -102, -106, -110, -114, -118,
     -121, -123, -125, -127, -127, -128, -128, -127, -126, -125, -123, -120, -117, -114, -110, -106,
     -101, -96, -90, -84, -78, -72, -65, -58, -51, -43, -36, -28, -20, -12, -4, 4,
     12, 20, 28, 36, 43, 51, 58, 65, 72, 78, 84, 90, 96, 101, 106, 110,
     114, 117, 120, 123, 125, 126, 127, 128, 128, 127, 127, 125, 123, 121, 118, 114,
     110, 106, 102, 96, 91, 85, 79, 73, 66, 59, 52, 44, 37, 29, 21, 13,
     5, -3, -11, -19, -27, -35, -42, -50, -57, -64, -71, -78, -84, -90, -95, -100,
     -105, -110, -113, -117, -120, -123, -125, -126, -127, -128, -128, -128, -127, -125, -123, -121,
     -118, -115, -111, -107, -102, -97, -92, -86, -80, -73, -67, -60, -52, -45, -37, -30,
     -22, -14, -6, 2, 10, 18, 26, 34, 42, 49, 56, 63, 70, 77, 83, 89,
     95, 100, 105, 109, 113, 117, 120, 122, 124, 126, 127, 128, 128, 128, 127, 125,
     124, 121, 118, 115, 111, 107, 103, 98, 92, 87, 80, 74, 67, 60, 53, 46,
     38, 31, 23, 15, 7, -1, -9, -17, -25, -33, -41, -48, -56, -63, -70, -76,
     -82, -88, -94, -99, -104, -109, -113, -116, -119, -122, -124, -126, -127, -128, -128, -128,
     -127, -126, -124, -122, -119, -116, -112, -108, -103, -98, -93, -87, -81, -75, -68, -61,
     -54, -47, -39, -31, -24, -16, -8, 0, 8, 16, 24, 32, 40, 47, 55, 62,
     69, 75, 82, 88, 93, 99, 104, 108, 112, 116, 119, 122, 124, 126, 127, 128,
     128, 128, 127, 126, 124, 122, 119, 116, 112, 108, 104, 99, 94, 88, 82, 76,
     69, 62, 55, 48, 40, 32, 24, 17, 9, 1, -7, -15, -23, -31, -39, -47,
     -54, -61, -68, -75, -81, -87, -93, -98, -103, -108, -112, -115, -119, -121, -124, -126,
     -127, -128, -128, -128, -127, -126, -124, -122, -119, -116, -113, -109, -104, -99, -94, -89,
     -83, -76, -70, -63, -56, -48, -41, -33, -25, -17, -9, -1, 7, 15, 22, 30,
     38, 46, 53, 60, 67, 74, 80, 86, 92, 98, 103, 107, 111, 115, 118, 121,
     124, 125, 127, 128, 128, 128, 127, 126, 124, 122, 120, 117, 113, 109, 105, 100,
     95, 89, 83, 77, 70, 64, 57, 49, 42, 34, 26, 18, 10, 2, -6, -14,
     -22, -29, -37, -45, -52, -59, -66, -73, -80, -86, -92, -97, -102, -107, -111, -115,
     -118, -121, -123, -125, -127, -128, -128, -128, -127, -126, -125, -123, -120, -117, -114, -110,
     -105, -101, -95, -90, -84, -78, -71, -64, -57, -50, -43, -35, -27, -19, -11, -3,
     5, 13, 21, 29, 36, 44, 51, 59, 66, 72, 79, 85, 91, 96, 101, 106,
     110, 114, 118, 121, 123, 125, 126, 127, 128, 128, 127, 126, 125, 123, 120, 117,
     114, 110, 106, 101, 96, 90, 85, 78, 72, 65, 58, 51, 43, 36, 28, 20,
     12, 4, -4, -12, -20, -28, -35, -43, -51, -58, -65, -72, -78, -84, -90, -96,
     -101, -106, -110, -114, -117, -120, -123, -125, -126, -127, -128, -128, -127, -127, -125, -123,
     -121, -118, -114, -111, -106, -102, -97, -91, -85, -79, -73, -66, -59, -52, -44, -37,
     -29, -21, -13, -5, 3, 11, 19, 27, 35, 42, 50, 57, 64, 71, 77, 84,
     90, 95, 100, 105, 109, 113, 117, 120, 122, 125, 126, 127, 128, 128, 128, 127,
     125, 123, 121, 118, 115, 111, 107, 102, 97, 92, 86, 80, 73, 67, 60, 53,
     45, 38, 30, 22, 14, 6, -2, -10, -18, -26, -34, -41, -49, -56, -63, -70,
     -77, -83, -89, -95, -100, -105, -109, -113, -117, -120, -122, -124, -126, -127, -128, -128,
     -128, -127, -125, -124, -121, -118, -115, -111, -107, -103, -98, -92, -87, -81, -74, -68,
     -61, -53, -46, -38, -31, -23, -15, -7, 1, 9, 17, 25, 33, 41, 48, 55,
     62, 69, 76, 82, 88, 94, 99, 104, 109, 113, 116, 119, 122, 124, 126, 127,
     128, 128, 128, 127, 126, 124, 122, 119, 116, 112, 108, 103, 98, 93, 87, 81,
     75, 68, 61, 54, 47, 39, 32, 24, 16, 8, 0, -8, -16, -24, -32, -40,
     -47, -55, -62, -69, -75, -82, -88, -93, -99, -104, -108, -112, -116, -119, -122, -124,
     -126, -127, -128, -128, -128, -127, -126, -124, -122, -119, -116, -112, -108, -104, -99, -94,
     -88, -82, -76, -69, -62, -55, -48, -40, -32, -25, -17, -9, -1, 7, 15, 23,
     31, 39, 46, 54, 61, 68, 74, 81, 87, 93, 98, 103, 108, 112, 115, 119,
     121, 124, 126, 127, 128, 128, 128, 127, 126, 124, 122, 119, 116, 113, 109, 104,
     100, 94, 89, 83, 76, 70, 63, 56, 49, 41, 33, 26, 18, 10, 2, -6,
     -14, -22, -30, -38, -45, -53, -60, -67, -74, -80, -86, -92, -97, -102, -107, -111,
     -115, -118, -121, -123, -125, -127, -128, -128, -128, -127, -126, -125, -122, -120, -117, -113,
     -109, -105, -100, -95, -89, -83, -77, -71, -64, -57, -49, -42, -34, -26, -19, -11,
     -3, 5, 13, 21, 29, 37, 45, 52, 59, 66, 73, 79, 86, 91, 97, 102,
     107, 111, 115, 118, 121, 123, 125, 127, 128, 128, 128, 127, 126, 125, 123, 120,
     117, 114, 110, 105, 101, 95, 90, 84, 78, 71, 65, 58, 50, 43, 35, 27,
     19, 11, 3, -5, -13, -21, -28, -36, -44, -51, -58, -65, -72, -79, -85, -91,
     -96, -101, -106, -110, -114, -118, -120, -123, -125, -126, -127, -128, -128, -127, -126, -125,
     -123, -120, -117, -114, -110, -106, -101, -96, -91, -85, -79, -72, -65, -58, -51, -44,
     -36, -28, -20, -12, -4, 4, 12, 20, 28, 35, 43, 50, 58, 65, 72, 78,
     84, 90, 96, 101, 106, 110, 114, 117, 120, 123, 125, 126, 127, 128, 128, 128,
     127, 125, 123, 121, 118, 114, 111, 106, 102, 97, 91, 85, 79, 73, 66, 59 >>

\* one period of a sine of amplitude 0.5 with a period of 8 samples
SinePeriod8 == << 0, 45, 64, 45, 0, -45, -64, -45 >>

\* a frame of FrameLength samples that repeats the period p
Periodic(p) == [k \in 1 .. FrameLength |-> p[((k - 1) % Len(p)) + 1]]

\* frames of pure tones: 440 Hz at 44100 Hz, and 1000 Hz at 8000 Hz
Tones ==
  { [frame |-> Sine440, rate |-> 44100, F |-> 440],
    [frame |-> Periodic(SinePeriod8), rate |-> 8000, F |-> 1000] }

NextPitch ==
  \/ ~estimate.set /\ \E frame \in Frames, rate \in SampleRates : Estimate(frame, rate)
  \/ ~estimate.set /\ \E tone \in Tones : Estimate(tone.frame, tone.rate)
  \/ EstimateTaken

SpecPitch == Init /\ [][NextPitch]_vars

(***************************************************************************)
(* AudioEngine: playTone and stopAllTones (part_000)                       *)
(***************************************************************************)
\* one voice for every branch of playTone; 'sitar' adds the drone to its branch
Voices == { "piano", "harmonium", "shenai", "sitar", "veena", "synth_lead", "bansuri" }

MaxTones == 2

Reed(voice) == voice \in { "harmonium", "shenai" }

\* the sources playTone starts for a voice (the calls of start(now))
Started(voice) ==
  IF Reed(voice) THEN { "osc1", "osc2" }
  ELSE IF voice = "sitar" THEN { "drone", "osc" }
  ELSE IF voice \in { "veena", "synth_lead" } THEN { "osc" }
  ELSE IF voice = "bansuri" THEN { "osc", "noise" }
  ELSE { "osc1", "osc2" }

\* the sources playTone adds to activeOscillators
Tracked(voice) ==
  IF Reed(voice) THEN { "osc1", "osc2" }
  ELSE IF voice = "sitar" THEN { "drone", "osc" }
  ELSE IF voice \in { "veena", "synth_lead" } THEN { "osc" }
  ELSE IF voice = "bansuri" THEN { "osc" }
  ELSE { "osc1", "osc2" }

\* the oscillator that carries the onended handler
Main(voice) ==
  IF voice \in { "sitar", "veena", "synth_lead", "bansuri" } THEN "osc" ELSE "osc1"

\* the oscillators the onended handler deletes from activeOscillators
Deleted(voice) ==
  IF voice \in { "sitar", "veena", "synth_lead", "bansuri" } THEN { "osc" }
  ELSE { "osc1", "osc2" }

\* playTone(midiPitch, duration, voice): the sources are created, connected,
\* started, given their stop time, and the oscillators are tracked
playTone(voice) ==
  /\ Len(tones) < MaxTones
  /\ tones' = Append(tones, [voice |-> voice, sounding |-> Started(voice), onended |-> "armed"])
  /\ activeOscillators' =
        activeOscillators \cup { << Len(tones) + 1, s >> : s \in Tracked(voice) }
  /\ called' = "playTone"
  /\ drums' = << >>
  /\ UNCHANGED << pc, args, notes, analyzeLocals, composeLocals, ret, prev, seedVars,
                  pitchVars, appVars, isRhythmPlaying, currentPattern, currentBpm,
                  currentBeatIndex, nextNoteTime, rhythmTimerID, rhythmTimers >>

\* the stop time the sources of tone t were given is reached (all sources of
\* one tone have the same stop time); the ended event of the main oscillator is due
ScheduledStop(t) ==
  /\ tones[t].sounding # {}
  /\ tones' = [tones EXCEPT ![t].sounding = {},
                            ![t].onended = IF @ = "armed" THEN "due" ELSE @]
  /\ UNCHANGED << pc, args, notes, analyzeLocals, composeLocals, ret, prev, seedVars,
                  pitchVars, appVars, activeOscillators, isRhythmPlaying, called,
                  rhythmVars >>

\* the onended handler of tone t
OnEnded(t) ==
  /\ tones[t].onended = "due"
  /\ tones' = [tones EXCEPT ![t].onended = "ran"]
  /\ activeOscillators' =
        activeOscillators \ { << t, s >> : s \in Deleted(tones[t].voice) }
  /\ UNCHANGED << pc, args, notes, analyzeLocals, composeLocals, ret, prev, seedVars,
                  pitchVars, appVars, isRhythmPlaying, called, rhythmVars >>

\* the rhythm patterns: a length in beats and the steps; the beat of a step
\* and the length are counted in half beats here
RhythmPatterns ==
  { [length |-> 4, steps |-> << [beat |-> 0, sound |-> "kick"],
                                [beat |-> 2, sound |-> "snare"] >>],
    [length |-> 2, steps |-> << [beat |-> 0, sound |-> "tabla_dha"],
                                [beat |-> 1, sound |-> "tabla_na"] >>] }

Tempos == { 120, 240 }

\* secondsPerBeat * 0.5 in ticks of 25 ms
HalfBeat(bpm) == 1200 \div bpm

\* the 0.1 s that scheduleNote schedules ahead, in ticks
Lookahead == 100 \div 25

\* the ticks a timer of 25 ms can take to fire: in time, or late
MaxDelay == 6

Delays == { 1, MaxDelay }

MaxRhythmIds == 3

\* the id window.setTimeout returns
NextTimerId == (rhythmTimerID % MaxRhythmIds) + 1

\* lines 339-343: the sounds of the steps on the beat, in the order of the steps
SoundsOn(pattern, beat) ==
  LET on(step) == step.beat = beat % pattern.length
      sel == SelectSeq(pattern.steps, on)
  IN  [k \in DOMAIN sel |-> sel[k].sound]

RECURSIVE ScheduleLoop(_, _, _, _, _)
\* lines 333-351: the while loop of scheduleNote
ScheduleLoop(pattern, bpm, next, beat, played) ==
  IF ~(next < Lookahead) THEN [next |-> next, beat |-> beat, played |-> played]
  ELSE ScheduleLoop(pattern, bpm, next + HalfBeat(bpm),
                    IF beat + 1 >= pattern.length THEN 0 ELSE beat + 1,
                    played \o SoundsOn(pattern, beat))

\* a clearTimeout that clears nothing
ClearNothing(id) == rhythmTimers

\* clearTimeout(id)
ClearTimeout(id) == rhythmTimers \ { id }

\* lines 328-356: scheduleNote for the pattern and tempo of the engine,
\* called when nextNoteTime is next, the beat index is beat and the timers
\* pending are pending
scheduleNote(pattern, bpm, next, beat, pending) ==
  \E r \in { ScheduleLoop(pattern, bpm, next, beat, << >>) } :
     /\ nextNoteTime' = r.next
     /\ currentBeatIndex' = r.beat
     /\ drums' = r.played
     /\ IF isRhythmPlaying'
        THEN /\ NextTimerId \notin pending
             /\ rhythmTimerID' = NextTimerId
             /\ rhythmTimers' = pending \cup { NextTimerId }
        ELSE /\ rhythmTimerID' = rhythmTimerID
             /\ rhythmTimers' = pending

\* lines 358-367: startRhythm(pattern, bpm)
startRhythm(pattern, bpm) ==
  /\ called' = "startRhythm"
  /\ IF isRhythmPlaying
     THEN /\ drums' = << >>
          /\ UNCHANGED << isRhythmPlaying, currentPattern, currentBpm, currentBeatIndex,
                          nextNoteTime, rhythmTimerID, rhythmTimers >>
     ELSE /\ currentPattern' = pattern
          /\ currentBpm' = bpm
          /\ isRhythmPlaying' = TRUE
          /\ scheduleNote(pattern, bpm, 0, 0, rhythmTimers)
  /\ UNCHANGED << pc, args, notes, analyzeLocals, composeLocals, ret, prev, seedVars,
                  pitchVars, appVars, tones, activeOscillators >>

\* the timer id fires d ticks after it was set: the callback calls scheduleNote
RhythmTimerFires(id, d) ==
  /\ id \in rhythmTimers
  /\ called' = "scheduleNote"
  /\ UNCHANGED << isRhythmPlaying, currentPattern, currentBpm >>
  /\ scheduleNote(currentPattern, currentBpm, nextNoteTime - d, currentBeatIndex,
                  rhythmTimers \ { id })
  /\ UNCHANGED << pc, args, notes, analyzeLocals, composeLocals, ret, prev, seedVars,
                  pitchVars, appVars, tones, activeOscillators >>

\* lines 369-372: what stopRhythm does
StopRhythm ==
  /\ isRhythmPlaying' = FALSE
  /\ rhythmTimers' = IF rhythmTimerID # 0 THEN ClearTimeout(rhythmTimerID) ELSE rhythmTimers
  /\ drums' = << >>
  /\ UNCHANGED << currentPattern, currentBpm, currentBeatIndex, nextNoteTime, rhythmTimerID >>

stopRhythm ==
  /\ StopRhythm
  /\ called' = "stopRhythm"
  /\ UNCHANGED << pc, args, notes, analyzeLocals, composeLocals, ret, prev, seedVars,
                  pitchVars, appVars, tones, activeOscillators >>

\* tone t after stop() was called on each of its tracked oscillators
StoppedByStop(t) ==
  LET hit == { s \in Started(tones[t].voice) : << t, s >> \in activeOscillators }
  IN  [tones[t] EXCEPT !.sounding = @ \ hit,
                       !.onended = IF @ = "armed" /\ Main(tones[t].voice) \in hit
                                   THEN "due" ELSE @]

\* stopAllTones: stopRhythm, stop() on every tracked oscillator, clear()
StopTones ==
  /\ StopRhythm
  /\ tones' = [t \in DOMAIN tones |-> StoppedByStop(t)]
  /\ activeOscillators' = {}
  /\ called' = "stopAllTones"

stopAllTones ==
  /\ StopTones
  /\ UNCHANGED << pc, args, notes, analyzeLocals, composeLocals, ret, prev, seedVars,
                  pitchVars, appVars >>

\* the tones, with the rhythm started and stopped; its timers are left pending
NextTones ==
  \/ \E voice \in Voices : playTone(voice)
  \/ \E t \in DOMAIN tones : ScheduledStop(t)
  \/ \E t \in DOMAIN tones : OnEnded(t)
  \/ \E pattern \in RhythmPatterns, bpm \in Tempos : startRhythm(pattern, bpm)
  \/ stopAllTones

SpecTones == Init /\ [][NextTones]_vars

\* the rhythm engine alone, with its timers
NextRhythm ==
  \/ \E pattern \in RhythmPatterns, bpm \in Tempos : startRhythm(pattern, bpm)
  \/ \E id \in rhythmTimers, d \in Delays : RhythmTimerFires(id, d)
  \/ stopRhythm
  \/ stopAllTones

SpecRhythm == Init /\ [][NextRhythm]_vars

(***************************************************************************)
(* App: the session, the auto-analyze effect and the deferred analysis     *)
(* (part_001).  JavaScript runs one handler at a time: a handler, the      *)
(* render and the effects that follow it are one step, and while a         *)
(* deferred callback runs a producer (pc # "idle") no handler runs.        *)
(* Left out: playback, the sequencer, the restricted-playback path of      *)
(* handleYoutubeError, which makes the video ready like isPlayerReady, and *)
(* the segment selector, which stays at its value (scaled to the videos of *)
(* the model).                                                             *)
(***************************************************************************)
\* audioState.duration counts in 1 / PerSecond s: the half sample period of
\* a buffer at 8000 Hz
PerSecond == 2 * 8000

\* the videos and their length in seconds; the files
AppVideoIds == { <<116, 101, 115, 116>> }

VideoSeconds == MaxTime

AppBuffers ==
  { [channelData |-> Run(<<64, -64>>, LongRun), sampleRate |-> 8000] }

MaxTimers == 2

\* line 303: the segment selector stays at its value, scaled to the videos of the model
segmentDuration == 2

\* line 424: the dependencies of the auto-analyze effect (isRestricted left out)
Deps == << audioStateDuration, currentSegmentIndex, isPlayerReady, ytVideoId, sourceType >>

\* lines 412-424 and 340-352: the auto-analyze effect after a render in which a
\* dependency changed, and the
\* call of analyzeSegment up to its setTimeout; processing is the value the
\* handler left in isProcessing
AutoAnalyze(processing) ==
  IF /\ Deps' # Deps
     /\ audioStateDuration' > 0
     /\ currentSegmentIndex' \notin processedSegments'
     /\ \/ sourceType' = "file" /\ audioBufferRef' # NoBuffer
        \/ sourceType' = "youtube" /\ ytVideoId' # << >> /\ isPlayerReady'
  THEN /\ Len(timers) < MaxTimers
       /\ timers' = Append(timers, [index |-> currentSegmentIndex',
                                    totalDuration |-> audioStateDuration',
                                    sourceType |-> sourceType',
                                    ytVideoId |-> ytVideoId',
                                    stale |-> FALSE, set |-> TRUE])
       /\ isProcessing' = TRUE
  ELSE /\ timers' = timers
       /\ isProcessing' = processing

\* lines 322-336: resetSession; the callbacks still deferred belong to the
\* session that ends here
resetSession ==
  /\ StopTones
  /\ appNotes' = << >>
  /\ processedSegments' = {}
  /\ currentSegmentIndex' = 0
  /\ audioStateDuration' = 0
  /\ isPlayerReady' = FALSE
  /\ isProcessing' = FALSE
  /\ audioBufferRef' = NoBuffer
  /\ timers' = [k \in DOMAIN timers |-> [timers[k] EXCEPT !.stale = TRUE]]
  /\ invoked' = << >>
  /\ merged' = -1

ProducersAtRest == UNCHANGED << pc, args, notes, analyzeLocals, composeLocals, ret, prev,
                                seedVars, pitchVars >>

\* lines 459-470: the load button is shown for the YouTube source and is
\* disabled while isProcessing
handleYoutubeLoad(id) ==
  /\ pc = "idle"
  /\ sourceType = "youtube" /\ ~isProcessing
  /\ resetSession
  /\ ytVideoId' = id
  /\ UNCHANGED << sourceType, decoding, running >>
  /\ ProducersAtRest

\* lines 472-477: the player of the video reports its duration
onYoutubePlayerReady ==
  /\ pc = "idle"
  /\ ytVideoId # << >> /\ ~isPlayerReady
  /\ audioStateDuration' = VideoSeconds * PerSecond
  /\ isPlayerReady' = TRUE
  /\ UNCHANGED << sourceType, ytVideoId, audioBufferRef, currentSegmentIndex, processedSegments >>
  /\ AutoAnalyze(isProcessing)
  /\ UNCHANGED << appNotes, decoding, running, invoked, merged, toneVars >>
  /\ ProducersAtRest

\* lines 428-436: handleFileUpload up to its await; the drop zone is shown
\* for the file source
handleFileUpload(buffer) ==
  /\ pc = "idle"
  /\ sourceType = "file" /\ decoding = NoBuffer
  /\ resetSession
  /\ decoding' = buffer
  /\ UNCHANGED << sourceType, ytVideoId, running >>
  /\ ProducersAtRest

\* lines 437-452: handleFileUpload after the file is decoded
FileDecoded ==
  /\ pc = "idle"
  /\ decoding # NoBuffer
  /\ audioBufferRef' = decoding
  /\ decoding' = NoBuffer
  /\ sourceType' = "file"
  /\ audioStateDuration' =
        (Len(decoding.channelData) * PerSecond) \div decoding.sampleRate
  /\ ytVideoId' = << >>
  /\ isPlayerReady' = TRUE
  /\ UNCHANGED << currentSegmentIndex, processedSegments >>
  /\ AutoAnalyze(isProcessing)
  /\ UNCHANGED << appNotes, running, invoked, merged, toneVars >>
  /\ ProducersAtRest

\* lines 760 and 766: the two buttons of the source switch
SetSourceType(type) ==
  /\ pc = "idle"
  /\ sourceType' = type
  /\ UNCHANGED << ytVideoId, audioBufferRef, audioStateDuration, isPlayerReady,
                  currentSegmentIndex, processedSegments >>
  /\ AutoAnalyze(isProcessing)
  /\ UNCHANGED << appNotes, decoding, running, invoked, merged, toneVars >>
  /\ ProducersAtRest

\* the navigation to the segment index: the state the effect reads changes
\* in currentSegmentIndex alone
GoToSegment(index) ==
  /\ currentSegmentIndex' = index
  /\ UNCHANGED << sourceType, ytVideoId, audioBufferRef, audioStateDuration,
                  isPlayerReady, processedSegments >>
  /\ AutoAnalyze(isProcessing)
  /\ UNCHANGED << appNotes, decoding, running, invoked, merged, toneVars >>
  /\ ProducersAtRest

MaxIndex == audioStateDuration \div (segmentDuration * PerSecond)

\* lines 587-600
handlePrevSegment ==
  /\ pc = "idle"
  /\ currentSegmentIndex > 0
  /\ GoToSegment(currentSegmentIndex - 1)

\* lines 602-616 (and proceedToNextSegment, lines 577-585, when playback
\* has reached the next segment)
handleNextSegment ==
  /\ pc = "idle"
  /\ currentSegmentIndex < MaxIndex
  /\ GoToSegment(currentSegmentIndex + 1)

\* lines 632-645: the slider goes from 0 to audioState.duration and is
\* disabled until the player is ready
handleSeek(index) ==
  /\ pc = "idle"
  /\ isPlayerReady
  /\ index # currentSegmentIndex
  /\ GoToSegment(index)

\* the timer at the head of the queue: its arguments and the producer it calls
Due == Head(timers)

CallsDetect == Due.sourceType = "file" /\ audioBufferRef # NoBuffer

CallsCompose == ~CallsDetect /\ Due.sourceType = "youtube" /\ Due.ytVideoId # << >>

SegmentStart == Due.index * segmentDuration

\* line 356: Math.min(startTime + totalDuration), in seconds
SegmentEnd ==
  Min((SegmentStart + segmentDuration) * PerSecond, Due.totalDuration) \div PerSecond

\* the deferred callback leaves the queue and runs
Fires ==
  /\ pc = "idle"
  /\ timers # << >>
  /\ timers' = Tail(timers)
  /\ running' = Due
  /\ invoked' = IF Due.stale \/ ~(CallsDetect \/ CallsCompose) THEN invoked
                ELSE Append(invoked, Due.index)
  /\ UNCHANGED << sourceType, ytVideoId, audioBufferRef, audioStateDuration,
                  isPlayerReady, isProcessing, currentSegmentIndex,
                  processedSegments, appNotes, decoding, merged >>

\* lines 354-374: the deferred callback up to the call of its producer; with
\* no producer to call newNotes stays empty
CallbackStarts ==
  /\ Fires
  /\ IF CallsDetect
     THEN AnalyzeCall(audioBufferRef, SegmentStart * 2 * audioBufferRef.sampleRate,
                      segmentDuration * 2 * audioBufferRef.sampleRate)
     ELSE IF CallsCompose
     THEN ComposeCall(Due.ytVideoId, SegmentStart, SegmentEnd)
     ELSE /\ pc' = "done"
          /\ UNCHANGED << args, notes, analyzeLocals, composeLocals, ret, prev, seedVars,
                          pitchVars, toneVars >>

\* the time units per second of the notes the running callback got
UnitsOfCall ==
  IF fn = "analyzeAudioSegment" THEN 2 * audioBuffer.sampleRate
  ELSE IF fn = "generateDeterministicNotes" THEN 100 * TempoOf(videoId)
  ELSE 1

Timed(n, per) == [note |-> n, per |-> per]

\* a.start_time - b.start_time < 0, for notes timed in different units
StartsBefore(a, b) == a.note.start_time * b.per < b.note.start_time * a.per

StartsWith(a, b) == a.note.start_time * b.per = b.note.start_time * a.per

\* a merge that appends the new notes without sorting
Unsorted(ns) == ns

\* line 379: the stable sort of the merged list
SortApp(ns) ==
  LET rank(k) == Cardinality({j \in 1 .. Len(ns) :
                     \/ StartsBefore(ns[j], ns[k])
                     \/ StartsWith(ns[j], ns[k]) /\ j < k}) + 1
  IN  [p \in 1 .. Len(ns) |-> ns[CHOOSE k \in 1 .. Len(ns) : rank(k) = p]]

ExistingIds == { appNotes[k].note.id : k \in DOMAIN appNotes }

IsNew(n) == n.id \notin ExistingIds

\* lines 376-380: the update of the notes state
MergeNotes(newNotes) ==
  LET filteredNew == SelectSeq(newNotes, IsNew)
  IN  SortApp(appNotes \o [k \in DOMAIN filteredNew |-> Timed(filteredNew[k], UnitsOfCall)])

\* lines 376-385: the callback after its producer returned
CallbackEnds ==
  /\ pc = "done" /\ running.set
  /\ appNotes' = MergeNotes(ret)
  /\ merged' = Len(ret) - Len(SelectSeq(ret, IsNew))
  /\ processedSegments' = processedSegments \cup { running.index }
  /\ isProcessing' = FALSE
  /\ running' = NoTimer
  /\ pc' = "idle"
  /\ fn' = "none"
  /\ audioBuffer' = NoBuffer /\ startTime' = 0 /\ duration' = 0
  /\ videoId' = << >> /\ endTime' = 0
  /\ ret' = << >>
  /\ UNCHANGED << notes, analyzeLocals, composeLocals, prev, seedVars, pitchVars, toneVars,
                  sourceType, ytVideoId, audioBufferRef, audioStateDuration, isPlayerReady,
                  currentSegmentIndex, timers, decoding, invoked >>

NextApp ==
  \/ \E id \in AppVideoIds : handleYoutubeLoad(id)
  \/ onYoutubePlayerReady
  \/ \E buffer \in AppBuffers : handleFileUpload(buffer)
  \/ FileDecoded
  \/ \E type \in { "youtube", "file" } : SetSourceType(type)
  \/ handlePrevSegment
  \/ handleNextSegment
  \/ \E index \in 0 .. MaxIndex : handleSeek(index)
  \/ CallbackStarts
  \/ ComposeSetup
  \/ ComposeBar
  \/ ComposeReturn
  \/ AnalyzeFrame
  \/ AnalyzeReturn
  \/ CallbackEnds

SpecApp == Init /\ [][NextApp]_vars

\* a producer throws in the first calls of a session only
MaxThrown == 2

\* a catch block that leaves isProcessing as it is
CatchKeeps == UNCHANGED isProcessing

\* line 371: setIsProcessing(false) in the catch block
CatchResets == isProcessing' = FALSE

\* lines 369-373: the producer throws and the callback returns from its
\* catch block: nothing is merged, no segment is marked
CallbackCatches ==
  /\ pc \in { "setup", "bars", "frames" } /\ running.set
  /\ Len(invoked) <= MaxThrown
  /\ CatchResets
  /\ running' = NoTimer
  /\ pc' = "idle"
  /\ fn' = "none"
  /\ audioBuffer' = NoBuffer /\ startTime' = 0 /\ duration' = 0
  /\ videoId' = << >> /\ endTime' = 0
  /\ ret' = << >>
  /\ DropLocals
  /\ UNCHANGED << prev, seedVars, pitchVars, toneVars,
                  sourceType, ytVideoId, audioBufferRef, audioStateDuration, isPlayerReady,
                  currentSegmentIndex, processedSegments, appNotes, timers, decoding,
                  invoked, merged >>

\* a deferred callback from its start to its end
CallbackRuns ==
  \/ CallbackStarts
  \/ ComposeSetup
  \/ ComposeBar
  \/ ComposeReturn
  \/ AnalyzeFrame
  \/ AnalyzeReturn
  \/ CallbackEnds

\* the App with producers that can throw; of the navigation handlers the
\* step to the next segment stands for all three (each only sets
\* currentSegmentIndex and lets the effect of lines 412-424 run)
NextAnalysis ==
  \/ \E id \in AppVideoIds : handleYoutubeLoad(id)
  \/ onYoutubePlayerReady
  \/ \E buffer \in AppBuffers : handleFileUpload(buffer)
  \/ FileDecoded
  \/ \E type \in { "youtube", "file" } : SetSourceType(type)
  \/ handleNextSegment
  \/ CallbackRuns
  \/ CallbackCatches

\* the states in which a step of CallbackRuns can be taken: a timer is due
\* and the event loop is free, or a callback has started and not returned
CallbackDue ==
  \/ pc = "idle" /\ timers # << >>
  \/ pc \in { "setup", "bars", "frames" }
  \/ pc = "done" /\ running.set

\* the event loop runs a timer that is due, and a callback that has started
\* runs on: weak fairness of CallbackRuns, written out with CallbackDue as
\* its enabling condition
CallbackFair == []<>(~CallbackDue) \/ []<><<CallbackRuns>>_vars

SpecAnalysis == Init /\ [][NextAnalysis]_vars /\ CallbackFair

(***************************************************************************)
(* The sweep of analyzeAudioSegment alone: the samples are not held (the   *)
(* buffer stands for any buffer of its length); each window is given by    *)
(* what lines 205-227 compute from it, at 44100 Hz: silent, or the lag     *)
(* autoCorrelate chose (none, 0, and the lags of the pitches 71, 69, 68).  *)
(***************************************************************************)
SweepLags == { -1, 0, 89, 100, 106 }

Readings ==
  { [silent |-> TRUE, T0 |-> -1, set |-> TRUE] }
     \cup { [silent |-> FALSE, T0 |-> lag, set |-> TRUE] : lag \in SweepLags }

SweepLength == (LongRun * hopSize) + windowSize

SweepCall ==
  /\ AnalyzeCall([channelData |-> [k \in 1 .. SweepLength |-> 0], sampleRate |-> 44100],
                 0, 2 * SweepLength)
  /\ UNCHANGED appVars

\* lines 201-255: one iteration of the loop, for a window with the reading r
SweepFrame(r) ==
  /\ pc = "frames"
  /\ i < Len(segmentData) - windowSize
  /\ reading' = r
  /\ FrameStep(r.silent, r.T0)
  /\ i' = i + hopSize
  /\ UNCHANGED << pc, args, segmentData, composeLocals, ret, prev, seedVars, pitchVars,
                  toneVars, appVars >>

NextSweep ==
  \/ SweepCall
  \/ \E r \in Readings : SweepFrame(r)
  \/ AnalyzeReturn
  \/ CallerTakes

SpecSweep == Init /\ [][NextSweep]_vars

(***************************************************************************)
(* The sweep with the sample rate scaled as the window is (windowSize for  *)
(* 2048 samples): 85 stands for 43520 Hz and 190 for 97280 Hz, so that the *)
(* 5 hops of the shortest note last more than 0.1 s at the first rate and  *)
(* less at the second, as in the program.  A window is silent, loud        *)
(* without a pitch, or has the lag 1 or 2.                                 *)
(***************************************************************************)
LineRates == { 85, 190 }

LineReadings ==
  { [silent |-> TRUE, T0 |-> -1, set |-> TRUE] }
     \cup { [silent |-> FALSE, T0 |-> lag, set |-> TRUE] : lag \in { -1, 1, 2 } }

LineLength == (2 * LongRun * hopSize) + windowSize

LineCall ==
  /\ \E rate \in LineRates, s \in StartTimes :
        AnalyzeCall([channelData |-> [k \in 1 .. LineLength + 2 |-> 0], sampleRate |-> rate],
                    s, 2 * LineLength)
  /\ UNCHANGED appVars

NextLine ==
  \/ LineCall
  \/ \E r \in LineReadings : SweepFrame(r)
  \/ AnalyzeReturn
  \/ CallerTakes

SpecLine == Init /\ [][NextLine]_vars

(***************************************************************************)
(* The melody layer of generateDeterministicNotes alone, for every root,   *)
(* scale and progression the setup can draw and for every outcome of the   *)
(* draws of a slot: the values of the stream are given (0.2, 0.5 or 0.8    *)
(* for the rhythm, 0.2 or 0.8 for the others) and the cursor is not        *)
(* followed.  The tempo is 120, so that a bar lasts 2 s; notes holds the   *)
(* note the last slot pushed (the loop does not look at notes again).       *)
(***************************************************************************)
Tenths(n) == << (n * Half) \div 10, 0 >>

Rolls ==
  { << a, b, c, d, d >> : a \in { Tenths(2), Tenths(5), Tenths(8) },
                          b \in { Tenths(2), Tenths(8) },
                          c \in { Tenths(2), Tenths(8) },
                          d \in { Tenths(2), Tenths(8) } }

\* lines 24-73 with the values of the setup draws given
MelodyCall ==
  /\ pc = "idle"
  /\ pc' = "bars"
  /\ fn' = "generateDeterministicNotes"
  /\ videoId' = << >> /\ startTime' = 0 /\ endTime' = 2 * MaxTime
  /\ notes' = << >>
  /\ seed' = 0 /\ BPM' = 120 /\ SWING_FEEL' = FALSE
  /\ isMinor' \in BOOLEAN
  /\ rootNote' \in 58 .. 69
  /\ \E k \in DOMAIN PROGRESSIONS : progression' = PROGRESSIONS[k]
  /\ bar' = 0 /\ lastMelodyDegree' = 0 /\ melodyBeat' = 0
  /\ UNCHANGED << audioBuffer, duration, analyzeLocals, ret, prev, seedVars, pitchVars,
                  toneVars, appVars >>

\* lines 143-210: one iteration of the while loop
MelodyStep ==
  /\ pc = "bars"
  /\ bar < EndBar
  /\ melodyBeat < 8
  /\ \E roll \in Rolls :
     \E x \in { MelodySlot(melodyBeat, [seed |-> seed, notes |-> << >>,
                                        last |-> lastMelodyDegree], roll) } :
        /\ melodyBeat' = x[1]
        /\ notes' = x[2].notes
        /\ lastMelodyDegree' = x[2].last
  /\ UNCHANGED << pc, args, analyzeLocals, seed, BPM, SWING_FEEL, isMinor, rootNote,
                  progression, bar, ret, prev, seedVars, pitchVars, toneVars, appVars >>

\* lines 75 and 140: the while loop is over and the next bar begins
MelodyBarEnds ==
  /\ pc = "bars"
  /\ bar < EndBar
  /\ ~(melodyBeat < 8)
  /\ bar' = bar + 1
  /\ melodyBeat' = 0
  /\ notes' = << >>
  /\ UNCHANGED << pc, args, analyzeLocals, seed, BPM, SWING_FEEL, isMinor,
                  rootNote, progression, lastMelodyDegree, ret, prev, seedVars,
                  pitchVars, toneVars, appVars >>

NextMelody ==
  \/ MelodyCall
  \/ MelodyStep
  \/ MelodyBarEnds
  \/ ComposeReturn
  \/ CallerTakes

SpecMelody == Init /\ [][NextMelody]_vars

(***************************************************************************)
(* The properties                                                          *)
(***************************************************************************)
Returned(f) == pc = "done" /\ fn = f

\* every window of data has an RMS below 0.02 (data may hold no window at all)
SilenceOnly(data) ==
  \A k \in 0 .. Len(data) - windowSize : RmsBelow(Slice(data, k, k + windowSize), 2)

\* C1: for every buffer in which every analysis window has an RMS below 0.02
\* (all-zero, empty and too short buffers included), analyzeAudioSegment
\* returns the empty sequence
C1_SilenceGivesNoNotes ==
  (Returned("analyzeAudioSegment") /\ SilenceOnly(audioBuffer.channelData)) => ret = << >>

\* a quiet buffer that is not all zero was swept window by window
C1_QuietBufferAnalyzed ==
  /\ Returned("analyzeAudioSegment")
  /\ SilenceOnly(audioBuffer.channelData)
  /\ duration > 0
  /\ Len(audioBuffer.channelData) >= LongRun * hopSize
  /\ \E k \in DOMAIN audioBuffer.channelData : audioBuffer.channelData[k] # 0

Sorted(ns) == \A j \in 1 .. Len(ns) - 1 : ns[j].start_time <= ns[j + 1].start_time

\* C2: every call of a producer (analyzeAudioSegment, generateDeterministicNotes)
\* returns its notes sorted non-decreasing by start_time
C2_ReturnedSorted == pc = "done" => Sorted(ret)

\* a melody note, pushed after the bass of its bar, was returned before it
C2_SortMovedNotes ==
  /\ Returned("generateDeterministicNotes")
  /\ \E j, k \in DOMAIN ret :
        /\ j < k
        /\ ret[j].id[1] = "mel" /\ ret[k].id[1] = "bass"
        /\ ret[j].id[2] = ret[k].id[2]

\* C3: no two notes returned by one call of a producer have the same id
C3_IdsUnique ==
  pc = "done" => \A j, k \in DOMAIN ret : ret[j].id = ret[k].id => j = k

\* two detected notes start in the same millisecond: their ids differ by the index alone
C3_SameMillisecond ==
  /\ Returned("analyzeAudioSegment")
  /\ Len(ret) >= 2
  /\ ret[1].id[2] = ret[2].id[2]

SameArguments ==
  /\ prev.set
  /\ prev.videoId = videoId /\ prev.startTime = startTime /\ prev.endTime = endTime

\* C4: two calls of generateDeterministicNotes with the same seed string,
\* startTime and endTime return the same notes, field for field, whatever
\* calls were made in between
C4_Deterministic ==
  (Returned("generateDeterministicNotes") /\ SameArguments) => ret = prev.ret

\* a call returned notes a second time for the arguments of the call kept
C4_CalledAgain ==
  Returned("generateDeterministicNotes") /\ SameArguments /\ ret # << >>

\* the time t (in units of 1 / (100 * BPM) s) lies in the window of the
\* returned call and in the window of the call kept
Shared(t) ==
  /\ t >= Max(startTime, prev.startTime) * 100 * TempoOf(videoId)
  /\ t < Min(endTime, prev.endTime) * 100 * TempoOf(videoId)

\* ns has a note with the start_time, pitch, duration and velocity of n
Has(ns, n) ==
  \E k \in DOMAIN ns :
     /\ ns[k].start_time = n.start_time
     /\ ns[k].midi_pitch = n.midi_pitch
     /\ ns[k].duration = n.duration
     /\ ns[k].velocity = n.velocity

\* C5: for one seed, the calls for two windows agree on the notes that start
\* in both windows: each such note of one call is a note of the other, with
\* the same start_time, pitch, duration and velocity
C5_SharedBarsAgree ==
  (Returned("generateDeterministicNotes") /\ prev.set /\ prev.videoId = videoId) =>
     /\ \A k \in DOMAIN ret : Shared(ret[k].start_time) => Has(prev.ret, ret[k])
     /\ \A k \in DOMAIN prev.ret : Shared(prev.ret[k].start_time) => Has(ret, prev.ret[k])

\* C6: every note generateDeterministicNotes returns has
\* startTime <= start_time < endTime
C6_NotesInWindow ==
  Returned("generateDeterministicNotes") =>
     \A k \in DOMAIN ret :
        /\ ret[k].start_time >= startTime * 100 * TempoOf(videoId)
        /\ ret[k].start_time < endTime * 100 * TempoOf(videoId)

\* C7: a malformed range gives the empty result: analyzeAudioSegment with
\* duration <= 0 and generateDeterministicNotes with endTime <= startTime
\* return no notes
C7_MalformedRangeEmpty ==
  /\ (Returned("analyzeAudioSegment") /\ duration <= 0) => ret = << >>
  /\ (Returned("generateDeterministicNotes") /\ endTime <= startTime) => ret = << >>

\* a NoteEvent: a start, a length, a pitch, a velocity and a confidence of 0 to 1
WellFormed(n) ==
  /\ DOMAIN n = {"id", "start_time", "duration", "midi_pitch", "velocity", "confidence"}
  /\ n.start_time \in Nat
  /\ n.duration \in Nat \ {0}
  /\ n.midi_pitch \in Int
  /\ n.velocity[1] \in 0 .. 100
  /\ n.velocity[2] # ToUint32(0) => n.velocity[1] <= 80
  /\ n.confidence \in 0 .. 100

\* C8: generateDeterministicNotes does not fail for the empty seed string: the
\* cursor starts from 0 (from a natural number for every seed), and the call
\* returns well-formed notes, as it does for every other seed
C8_EmptySeedFallback ==
  fn = "generateDeterministicNotes" =>
     /\ (pc = "setup" /\ videoId = << >>) => seed = 0
     /\ pc = "setup" => seed \in Nat
     /\ pc = "done" => \A k \in DOMAIN ret : WellFormed(ret[k])

\* the call for the empty seed string returned notes
C8_EmptySeedReturned ==
  Returned("generateDeterministicNotes") /\ videoId = << >> /\ ret # << >>

C10_PitchInMidiRange ==
  pc = "done" => \A k \in DOMAIN ret : ret[k].midi_pitch \in 0 .. 127

\* C11: autoCorrelate returns, for every frame, either the unvoiced sentinel -1
\* or sampleRate / T0 for a lag T0 >= 1 (the zero lag is never selected, so
\* the frequency is finite and positive), and a frame with an RMS below 0.01
\* is unvoiced
C11_LagAtLeastOne ==
  estimate.set =>
     /\ estimate.T0 = -1 \/ estimate.T0 >= 1
     /\ RmsBelow(estimate.buffer, 1) => estimate.T0 = -1

\* the frame of a pure tone was given to autoCorrelate
OfTone(tone) ==
  estimate.set /\ estimate.buffer = tone.frame /\ estimate.sampleRate = tone.rate

MinorOf(v) == GreaterTenths(Rng(InitialSeed(v) + 2), 5)

RootOf(v) == 58 + FloorMul(Rng(InitialSeed(v) + 3), 12)

ProgressionOf(v) == PROGRESSIONS[FloorMul(Rng(InitialSeed(v) + 4), Len(PROGRESSIONS)) + 1]

\* getMidiPitch (lines 49-55) in the key drawn for the seed string v
PitchOf(v, degree, octaveOffset) ==
  RootOf(v) + (octaveOffset * 12) + ((degree \div 7) * 12)
     + ScaleIntervals(MinorOf(v))[(degree % 7) + 1]

\* the bars of the returned call: floor(startTime / barDuration) up to
\* ceil(endTime / barDuration) - 1
BarsOfCall ==
  (startTime * 100 * TempoOf(videoId)) \div BAR_DURATION
     .. (-((-(endTime * 100 * TempoOf(videoId))) \div BAR_DURATION)) - 1

\* the returned notes that are the beat-1 bass of bar b
BassOnOne(b) == { k \in DOMAIN ret : ret[k].id = << "bass", b, 1 >> }

\* C13: for every window with 0 <= startTime < endTime and every bar b from
\* floor(startTime / barDuration) up to ceil(endTime / barDuration) - 1, the
\* returned notes hold exactly one beat-1 bass note of b: it starts at
\* b * barDuration, its pitch is the pitch of progression[b mod 4] two octaves
\* down, it lasts 1.2 beats, its velocity is 0.85 and its confidence 0.98
C13_OneBassPerBar ==
  (Returned("generateDeterministicNotes") /\ 0 <= startTime /\ startTime < endTime) =>
     \A b \in BarsOfCall :
        /\ Cardinality(BassOnOne(b)) = 1
        /\ \A k \in BassOnOne(b) :
              /\ ret[k].start_time = b * BAR_DURATION
              /\ ret[k].midi_pitch = PitchOf(videoId, ProgressionOf(videoId)[(b % 4) + 1], -2)
              /\ ret[k].duration = (BEAT_DURATION * 12) \div 10
              /\ ret[k].velocity = Velocity(85, ToUint32(0))
              /\ ret[k].confidence = 98

\* a window that starts inside a bar and ends in a later one was composed:
\* the bass of the first bar starts before the window
C13_WindowFromInsideABar ==
  /\ Returned("generateDeterministicNotes")
  /\ 0 < startTime /\ startTime < endTime
  /\ Cardinality(BarsOfCall) >= 2
  /\ \E k \in DOMAIN ret :
        /\ ret[k].id[1] = "bass" /\ ret[k].id[3] = 1
        /\ ret[k].start_time < startTime * 100 * TempoOf(videoId)

\* the seed string "test"
TestId == << 116, 101, 115, 116 >>

\* C14: generateDeterministicNotes("test", 0, 4) returns at least one bass
\* note with start_time 0.0, velocity 0.85, confidence 0.98 and the pitch
\* of the root drawn for "test" minus 24
C14_TestStartsOnRootBass ==
  (Returned("generateDeterministicNotes") /\ videoId = TestId /\ startTime = 0 /\ endTime = 4) =>
     \E k \in DOMAIN ret :
        /\ ret[k].id[1] = "bass"
        /\ ret[k].start_time = 0
        /\ ret[k].velocity = Velocity(85, ToUint32(0))
        /\ ret[k].confidence = 98
        /\ ret[k].midi_pitch = RootOf(TestId) - 24

\* the call for "test" and the window 0..4 returned notes of two bars
C14_TestComposed ==
  /\ Returned("generateDeterministicNotes")
  /\ videoId = TestId /\ startTime = 0 /\ endTime = 4
  /\ \E k \in DOMAIN ret : ret[k].id[2] = 1

\* C15: after stopAllTones no source started by an earlier playTone is still
\* sounding, whatever the voice (piano, harmonium, shenai, sitar, veena, synth,
\* bansuri), and the set of tracked oscillators is empty
C15_StopAllTonesSilences ==
  called = "stopAllTones" =>
     /\ activeOscillators = {}
     /\ \A t \in DOMAIN tones : tones[t].sounding = {}

\* C16: within one session (from one reset to the next) the producer is
\* called at most once for a segment index, however the auto-analyze effect,
\* the navigation, the source switch and the deferred callbacks interleave
C16_ProducerOncePerSegment ==
  \A j, k \in DOMAIN invoked : invoked[j] = invoked[k] => j = k

\* the notes state is sorted ascending by start_time
AppSorted == \A j \in 1 .. Len(appNotes) - 1 : ~StartsBefore(appNotes[j + 1], appNotes[j])

AppIdsUnique ==
  \A j, k \in DOMAIN appNotes : appNotes[j].note.id = appNotes[k].note.id => j = k

\* the step is the merge of a callback and every note of the list before it
\* is a note of the list after it, field for field
MergeKeepsNotes ==
  (pc = "done" /\ running.set) =>
     \A k \in DOMAIN appNotes : \E j \in DOMAIN appNotes' : appNotes'[j] = appNotes[k]

\* C17: after every step of the session (analyses, navigation, resets) the
\* notes state is sorted ascending by start_time and holds no id twice; a
\* merge keeps the notes it finds unchanged, so that a new note whose id is
\* already there is the one that is dropped
C17_ListSortedAndUnique ==
  [][AppSorted' /\ AppIdsUnique' /\ MergeKeepsNotes]_vars

\* two segments were merged and the second merge dropped a note whose id the
\* list already had
C17_DuplicateDropped ==
  /\ pc = "idle"
  /\ Cardinality(processedSegments) >= 2
  /\ merged > 0
  /\ Len(appNotes) >= 2

\* the number of notes the call has emitted after the step
EmittedAfter == IF pc' = "done" THEN Len(ret') ELSE Len(notes')

\* the start and the pitch of the note emitted last by the step
LastEmitted ==
  IF pc' = "done"
  THEN [start |-> ret'[Len(ret')].start_time, pitch |-> ret'[Len(ret')].midi_pitch]
  ELSE [start |-> notes'[Len(notes')].start, pitch |-> notes'[Len(notes')].pitch]

\* C18: a step of the sweep (a window, or the end of the sweep) emits at most
\* one note, and only for an open note with more than 4 frames: the note
\* that is open; an open note with 4 frames or less that is ended by silence,
\* by a pitch jump or by the end of the sweep is discarded
C18_OnlyStableNotesEmitted ==
  [][pc = "frames" =>
        /\ EmittedAfter <= Len(notes) + 1
        /\ EmittedAfter >= Len(notes)
        /\ EmittedAfter = Len(notes) + 1 =>
              /\ currentNoteStart # -1 /\ framesInNote > 4
              /\ LastEmitted = [start |-> startTime + 2 * currentNoteStart,
                                pitch |-> currentNotePitch]
        /\ (currentNoteStart # -1 /\ framesInNote <= 4) => EmittedAfter = Len(notes)]_vars

\* a note was open at the first window and the call returned nothing: the
\* note was discarded
C18_ShortNoteDiscarded ==
  /\ Returned("analyzeAudioSegment")
  /\ ret = << >>
  /\ startTime = 0 /\ duration > 0
  /\ Len(audioBuffer.channelData) > windowSize
  /\ ~Read(Slice(audioBuffer.channelData, 0, windowSize)).silent
  /\ Read(Slice(audioBuffer.channelData, 0, windowSize)).T0 >= 0

\* C19: a window with an RMS of 0.02 or more for which autoCorrelate finds no
\* pitch is a gap: the step emits nothing and leaves the start index, the
\* held pitch and the frame count of the open note as they are
C19_UnvoicedWindowIsGap ==
  [][(/\ pc = "frames"
      /\ i < Len(segmentData) - windowSize
      /\ ~RmsBelow(Slice(segmentData, i, i + windowSize), 2)
      /\ autoCorrelate(Slice(segmentData, i, i + windowSize)) = -1)
        => /\ pc' = "frames"
           /\ UNCHANGED << notes, currentNoteStart, currentNotePitch, framesInNote >>]_vars

\* the window swept last was loud and without a pitch while a note was open
C19_GapInsideNote ==
  /\ pc = "frames"
  /\ reading.set /\ ~reading.silent /\ reading.T0 = -1
  /\ currentNoteStart # -1 /\ framesInNote >= 1

\* more than one semitone apart (an infinite pitch is apart from every other pitch)
Apart(a, b) ==
  IF a = b THEN FALSE
  ELSE IF a = Infinity \/ b = Infinity THEN TRUE
  ELSE a - b > 1 \/ b - a > 1

\* C20: while a note is open, a voiced window whose pitch is more than one
\* semitone from the held pitch ends the note and opens a new one with that
\* pitch and a frame count of 1; a voiced window within one semitone adds 1
\* to the frame count and changes neither the held pitch nor the start: every
\* frame counted into a note is within one semitone of the pitch of its first frame
C20_HeldPitchWithinOneSemitone ==
  [][(/\ pc = "frames" /\ pc' = "frames"
      /\ ~reading'.silent /\ reading'.T0 # -1
      /\ currentNoteStart # -1)
        => IF Apart(MidiOfLag(audioBuffer.sampleRate, reading'.T0), currentNotePitch)
           THEN /\ currentNoteStart' = i
                /\ currentNotePitch' = MidiOfLag(audioBuffer.sampleRate, reading'.T0)
                /\ framesInNote' = 1
           ELSE /\ framesInNote' = framesInNote + 1
                /\ UNCHANGED << notes, currentNoteStart, currentNotePitch >>]_vars

\* the window counted last into the open note has a pitch one semitone from
\* the held pitch
C20_VibratoCounted ==
  /\ pc = "frames"
  /\ framesInNote >= 2
  /\ reading.set /\ ~reading.silent /\ reading.T0 > 0
  /\ MidiOfLag(audioBuffer.sampleRate, reading.T0) # currentNotePitch

\* the record of a note opened at the sample index from and closed at the
\* sample index to: times in half sample periods, 0.1 s is sampleRate / 5
Reference(from, to, confidence) ==
  [start_time |-> startTime + 2 * from,
   duration |-> IF 5 * 2 * (to - from) >= audioBuffer.sampleRate
                THEN 2 * (to - from)
                ELSE audioBuffer.sampleRate \div 5,
   midi_pitch |-> currentNotePitch,
   velocity |-> Velocity(70, ToUint32(0)),
   confidence |-> confidence]

\* the record without its id
Fields(n) ==
  [start_time |-> n.start_time, duration |-> n.duration, midi_pitch |-> n.midi_pitch,
   velocity |-> n.velocity, confidence |-> n.confidence]

\* the record that the map at the end of the sweep makes of a pushed note
Mapped(n) ==
  [start_time |-> n.start,
   duration |-> IF 5 * n.duration >= audioBuffer.sampleRate
                THEN n.duration
                ELSE audioBuffer.sampleRate \div 5,
   midi_pitch |-> n.pitch,
   velocity |-> Velocity(70, ToUint32(0)),
   confidence |-> n.confidence]

\* C21: a note closed by a window at the sample index i becomes, at the end of
\* the sweep, the record with start_time = startTime + open index / sampleRate,
\* duration = max(0.1, (i - open index) / sampleRate), the held pitch, the
\* velocity 0.7 and the confidence 0.8 if the window is silent and 0.85 if it
\* has another pitch; the note open at the end of the sweep is closed at the
\* length of the slice with the confidence 0.85; nothing else is returned
C21_NoteEqualsReference ==
  [][pc = "frames" =>
       IF pc' = "frames"
       THEN Len(notes') = Len(notes) + 1 =>
              /\ SubSeq(notes', 1, Len(notes)) = notes
              /\ Mapped(notes'[Len(notes')])
                    = Reference(currentNoteStart, i, IF reading'.silent THEN 80 ELSE 85)
       ELSE /\ \A k \in 1 .. Len(notes) : Fields(ret'[k]) = Mapped(notes[k])
            /\ Len(ret') = Len(notes)
                  \/ /\ Len(ret') = Len(notes) + 1
                     /\ Fields(ret'[Len(ret')])
                           = Reference(currentNoteStart, Len(segmentData), 85)]_vars

\* returned: a note longer than 0.1 s closed by silence and a note closed
\* otherwise, from a segment that does not start at 0
C21_BothConfidencesReturned ==
  /\ Returned("analyzeAudioSegment")
  /\ startTime > 0
  /\ \E j, k \in DOMAIN ret :
        /\ ret[j].confidence = 80 /\ 5 * ret[j].duration > audioBuffer.sampleRate
        /\ ret[k].confidence = 85

\* C25: for any two consecutive notes a and b that analyzeAudioSegment
\* returns, a.start_time + a.duration <= b.start_time, at every sample rate
C25_NotesDoNotOverlap ==
  Returned("analyzeAudioSegment") =>
     \A k \in 1 .. Len(ret) - 1 :
        ret[k].start_time + ret[k].duration <= ret[k + 1].start_time

\* the value of the stream at the position x
NextAt(x) == getSeededRandom(ToUint32(x))

\* the notes the step pushed
Pushed == SubSeq(notes', Len(notes) + 1, Len(notes'))

\* C22: in a call of generateDeterministicNotes the cursor starts at the sum
\* S of the character codes of the seed string; the five setup draws are
\* next(S), ..., next(S + 4) and give, in this order, the tempo, the swing,
\* the scale mode, the root and the progression, and leave the cursor at
\* S + 5; a bar moves the cursor forward by the number of its draws (3 to 42)
\* and every drawn value that its notes show (the intensity of the harmony,
\* the number in the id of a melody note) is the value of the stream at a
\* position the bar passed, the harmony before the melody
C22_CursorAdvancesByOne ==
  [][/\ (pc = "idle" /\ pc' = "setup") => seed' = SumCodes(videoId')
     /\ (pc = "setup" /\ pc' = "bars") =>
           /\ seed = SumCodes(videoId)
           /\ BPM' = 80 + FloorMul(NextAt(seed), 50)
           /\ SWING_FEEL' = GreaterTenths(NextAt(seed + 1), 6)
           /\ isMinor' = GreaterTenths(NextAt(seed + 2), 5)
           /\ rootNote' = 58 + FloorMul(NextAt(seed + 3), 12)
           /\ progression' = PROGRESSIONS[FloorMul(NextAt(seed + 4), 4) + 1]
           /\ seed' = seed + 5
     /\ (pc = "bars" /\ pc' = "bars") =>
           /\ seed' - seed \in 3 .. 42
           /\ Len(notes') >= Len(notes)
           /\ \A k \in DOMAIN Pushed :
                 /\ Pushed[k].id[1] = "harm" =>
                       \E x \in seed .. seed + 2 : Pushed[k].velocity[2] = NextAt(x)
                 /\ Pushed[k].id[1] = "mel" =>
                       \E x \in seed + 4 .. seed' - 1 :
                          Pushed[k].id[4] = FloorMul(NextAt(x), 100)]_vars

\* a call has drawn for its setup and for a bar with harmony and melody
C22_BarDrawn ==
  /\ pc = "bars"
  /\ seed > SumCodes(videoId) + 5
  /\ \E j, k \in DOMAIN notes : notes[j].id[1] = "harm" /\ notes[k].id[1] = "mel"

\* the melody notes the call holds or returned
MelodyNotes ==
  { notes[k] : k \in { j \in DOMAIN notes : notes[j].id[1] = "mel" } }
     \cup { ret[k] : k \in { j \in DOMAIN ret : ret[j].id[1] = "mel" } }

\* C23: every melody note that generateDeterministicNotes pushes, and so
\* every melody note it returns, has a midi_pitch from 60 to 84, and the
\* degree kept for the next note has that pitch
C23_MelodyInRange ==
  /\ \A n \in MelodyNotes : n.midi_pitch \in 60 .. 84
  /\ (pc = "bars" /\ notes # << >> /\ notes[Len(notes)].id[1] = "mel")
        => getMidiPitch(lastMelodyDegree, 0) = notes[Len(notes)].midi_pitch

\* the note pushed last was shifted down by a scale length: it ends a phrase
\* on the 5th of a chord, which is above 84 before the shift
C23_ClampShifted ==
  /\ pc = "bars" /\ bar < EndBar
  /\ notes # << >>
  /\ notes[Len(notes)].id[2] = bar /\ notes[Len(notes)].id[3] >= 6
  /\ bar % 2 = 0
  /\ lastMelodyDegree = progression[(bar % 4) + 1] + 4 - 7

\* the note the last slot pushed is on the last beat of the bar (currentBeat
\* of 3 or more) in a slot of one beat or more (0.9 of it is the duration)
EndsPhrase(n) ==
  /\ n.id[1] = "mel"
  /\ n.id[3] >= 6
  /\ 10 * n.duration >= 9 * BEAT_DURATION

\* the degree that ends the phrase of the bar b: the 5th above the chord
\* root in an even bar, the chord root in an odd bar
PhraseDegree(b) == progression[(b % 4) + 1] + (IF b % 2 = 0 THEN 4 ELSE 0)

\* C24: a melody note pushed at currentBeat >= 3 in a slot of one beat or
\* more has the degree chordDegree + 4 in an even bar and chordDegree in an
\* odd bar, shifted by at most one scale length by the clamp: its midi_pitch
\* is the pitch of that degree or 12 above or below it
C24_PhraseEndForced ==
  (pc = "bars" /\ notes # << >> /\ EndsPhrase(notes[Len(notes)])) =>
     \E shift \in { -1, 0, 1 } :
        /\ lastMelodyDegree = PhraseDegree(notes[Len(notes)].id[2]) + 7 * shift
        /\ notes[Len(notes)].midi_pitch
              = getMidiPitch(PhraseDegree(notes[Len(notes)].id[2]), 0) + 12 * shift

\* a phrase ended in an odd bar on the root of a chord of degree 3 or more,
\* not shifted by the clamp
C24_PhraseEnded ==
  /\ pc = "bars" /\ notes # << >> /\ EndsPhrase(notes[Len(notes)])
  /\ bar % 2 = 1 /\ notes[Len(notes)].id[2] = bar
  /\ lastMelodyDegree = progression[(bar % 4) + 1]
  /\ lastMelodyDegree >= 3

\* C26: the deferred callback of an analysis that was started before
\* resetSession adds no note to the notes of the new session and marks no
\* segment of the new session as processed
C26_StaleAnalysisDropped ==
  [][(pc = "done" /\ running.set /\ running.stale)
        => /\ appNotes' = appNotes
           /\ processedSegments' = processedSegments]_vars

\* C27: when every tone playTone started has ended and its onended handler
\* has run, no oscillator is left in the set of tracked oscillators,
\* whatever the voices of the tones
C27_TrackedSetEmptiesOut ==
  (\A t \in DOMAIN tones : tones[t].sounding = {} /\ tones[t].onended = "ran")
     => activeOscillators = {}

\* the call kept has another seed string with the same sum of character
\* codes, and the same window
SameSumAndWindow ==
  /\ prev.set
  /\ prev.videoId # videoId
  /\ SumCodes(prev.videoId) = SumCodes(videoId)
  /\ prev.startTime = startTime /\ prev.endTime = endTime

\* C28: two calls of generateDeterministicNotes whose seed strings differ
\* and have the same sum of character codes ("ab" and "ba") return, for the
\* same window, the same notes, ids included
C28_AnagramsComposeAlike ==
  (Returned("generateDeterministicNotes") /\ SameSumAndWindow) => ret = prev.ret

\* "ba" was composed after "ab" for the same window, with notes returned
C28_AnagramComposed ==
  /\ Returned("generateDeterministicNotes") /\ SameSumAndWindow
  /\ prev.videoId = <<97, 98>> /\ videoId = <<98, 97>>
  /\ Len(ret) >= 3

\* C29: at most one timer of scheduleNote is pending, and none while the
\* rhythm is not playing; drum sounds are played only by startRhythm when it
\* starts the rhythm and by a timer that fires while the rhythm is playing,
\* so none is played from a stopRhythm or stopAllTones to the next
\* startRhythm; a startRhythm while the rhythm is playing leaves the pattern,
\* the tempo, the beat index, the next note time and the timer as they are
C29_RhythmSchedulerSafe ==
  [][/\ Cardinality(rhythmTimers') <= 1
     /\ ~isRhythmPlaying' => rhythmTimers' = {}
     /\ called' \in { "stopRhythm", "stopAllTones" } => ~isRhythmPlaying'
     /\ drums' # << >> =>
           \/ called' = "startRhythm" /\ ~isRhythmPlaying /\ isRhythmPlaying'
           \/ called' = "scheduleNote" /\ isRhythmPlaying /\ isRhythmPlaying'
     /\ (called' = "startRhythm" /\ isRhythmPlaying) =>
           UNCHANGED << isRhythmPlaying, currentPattern, currentBpm, currentBeatIndex,
                        nextNoteTime, rhythmTimerID, rhythmTimers >>]_vars

\* startRhythm was called while the rhythm was playing, past its first beat
\* and with a timer pending: nothing was played and the rhythm goes on
C29_StartedWhilePlaying ==
  /\ called = "startRhythm"
  /\ isRhythmPlaying
  /\ drums = << >>
  /\ currentBeatIndex > 0
  /\ rhythmTimers = { rhythmTimerID } /\ rhythmTimerID > 1

\* C30: a deferred callback of analyzeSegment leaves isProcessing false when
\* it returns, after a merge (with or without a producer called) and after
\* a throw of the producer; so whenever isProcessing is true it is false
\* again later
C30_ProcessingEnds ==
  /\ [][(running.set /\ ~running'.set) => ~isProcessing']_vars
  /\ isProcessing ~> ~isProcessing

\* a callback ran with no source ready (no producer was called in this
\* session and a segment is marked) and isProcessing is false
C30_EndedWithoutProducer ==
  /\ ~isProcessing
  /\ processedSegments # {}
  /\ invoked = << >>
  /\ pc = "idle" /\ timers = << >>

=============================================================================
